---- MODULE Spec2Model ----
(***************************************************************************)
(* Model of reghost: the domain matcher (pkg/reghost Matcher, Resolver and *)
(* internal/dns Cache) and the macOS resolver-file manager                 *)
(* (internal/resolver Manager).                                            *)
(*                                                                         *)
(* Go strings are sequences of one-character strings, so that ToLower,     *)
(* HasSuffix, the trailing-dot normalisation and the regular-expression    *)
(* engine are computed on characters, as the code computes them.           *)
(***************************************************************************)
EXTENDS Integers, Sequences, FiniteSets, TLC

(***************************************************************************)
(* Bounds of the model.                                                    *)
(***************************************************************************)
\* longest record list given to NewMatcher / Update / UpdateResolverFiles
MaxRecords == 2
\* number of Update calls in one behaviour of the concurrent matcher
MaxUpdates == 1
\* number of UpdateResolverFiles calls in one behaviour of the manager
MaxPasses == 3
\* number of changes of the hint files by other programs in one behaviour
MaxExternal == 1
\* number of ticks of the monitor's ticker that find the resolver configured
MaxTicks == 1
\* number of Shutdown calls on one Server
MaxShutdowns == 2
\* number of calls on the config file in one behaviour
MaxOps == 2
\* number of ticks of the monitor's ticker on Linux in one behaviour
MaxChecks == 2

(***************************************************************************)
(* strings                                                                 *)
(***************************************************************************)
\* strings.ToLower, on the letters of the model's alphabet
ToLowerCh(c) ==
  CASE c = "A" -> "a"
    [] c = "B" -> "b"
    [] c = "C" -> "c"
    [] OTHER -> c

ToLower(s) == [i \in 1..Len(s) |-> ToLowerCh(s[i])]

\* strings.ToUpper (used by the callers that query a name in upper case)
ToUpperCh(c) ==
  CASE c = "a" -> "A"
    [] c = "b" -> "B"
    [] c = "c" -> "C"
    [] OTHER -> c

ToUpper(s) == [i \in 1..Len(s) |-> ToUpperCh(s[i])]

HasPrefix(s, p) == Len(s) >= Len(p) /\ SubSeq(s, 1, Len(p)) = p

HasSuffix(s, p) ==
  Len(s) >= Len(p) /\ SubSeq(s, Len(s) - Len(p) + 1, Len(s)) = p

\* the characters a query name or a pattern of the model is made of
Alphabet ==
  {"a", "b", "c", "A", "B", "C", ".", "^", "$", "\\", "[", "]", "+", "*", "?"}

(***************************************************************************)
(* regexp.Compile and Regexp.MatchString, on the fragment of RE2 syntax    *)
(* the record patterns use: ^ and $ assertions, escaped punctuation,       *)
(* the any-character dot, character classes of literal members, and the    *)
(* quantifiers + * ? on a one-character atom.                              *)
(* A compiled expression is a sequence of tokens                           *)
(*   [kind |-> "bol" | "eol" | "set", set |-> characters, q |-> quantifier]*)
(***************************************************************************)
Tok(kind, set, q) == [kind |-> kind, set |-> set, q |-> q]

CompileError == [ok |-> FALSE, toks |-> <<>>]

\* index of the first "]" of p at or after position i, 0 when there is none
RECURSIVE ClassEnd(_, _)
ClassEnd(p, i) ==
  IF i > Len(p) THEN 0
  ELSE IF p[i] = "]" THEN i
  ELSE ClassEnd(p, i + 1)

RECURSIVE ParseFrom(_, _, _)
ParseFrom(p, i, acc) ==
  IF i > Len(p) THEN [ok |-> TRUE, toks |-> acc]
  ELSE
    LET c == p[i] IN
    CASE c = "^" -> ParseFrom(p, i + 1, Append(acc, Tok("bol", {}, "1")))
      [] c = "$" -> ParseFrom(p, i + 1, Append(acc, Tok("eol", {}, "1")))
      [] c = "\\" ->
           \* "trailing backslash at end of expression"
           IF i = Len(p) THEN CompileError
           ELSE ParseFrom(p, i + 2, Append(acc, Tok("set", {p[i + 1]}, "1")))
      [] c = "[" ->
           \* a "]" right after "[" is a literal member: the class closes
           \* at the first "]" after at least one member
           LET j == ClassEnd(p, i + 2) IN
           \* "missing closing ]"
           IF j = 0 THEN CompileError
           ELSE ParseFrom(p, j + 1,
                  Append(acc, Tok("set", {p[k] : k \in (i + 1)..(j - 1)}, "1")))
      [] c = "]" -> ParseFrom(p, i + 1, Append(acc, Tok("set", {"]"}, "1")))
      [] c \in {"+", "*", "?"} ->
           \* "missing argument to repetition operator"
           IF acc = <<>> THEN CompileError
           \* "invalid nested repetition operator"
           ELSE IF acc[Len(acc)].q # "1" THEN CompileError
           ELSE ParseFrom(p, i + 1,
                  [acc EXCEPT ![Len(acc)] = Tok(@.kind, @.set, c)])
      [] c = "." -> ParseFrom(p, i + 1, Append(acc, Tok("set", Alphabet, "1")))
      [] OTHER -> ParseFrom(p, i + 1, Append(acc, Tok("set", {c}, "1")))

\* regexp.Compile(pattern): [ok, toks]; ok is err == nil
Compile(pattern) == ParseFrom(pattern, 1, <<>>)

\* does the assertion or the one-character atom t hold / match at position p of s
AtomAt(t, s, p) ==
  CASE t.kind = "bol" -> p = 1
    [] t.kind = "eol" -> p = Len(s) + 1
    [] OTHER -> p <= Len(s) /\ s[p] \in t.set

\* the position after t matched at p: assertions consume nothing
Adv(t, p) == IF t.kind = "set" THEN p + 1 ELSE p

\* does toks[i..] match a prefix of s[p..]
RECURSIVE MatchHere(_, _, _, _)
MatchHere(toks, i, s, p) ==
  IF i > Len(toks) THEN TRUE
  ELSE
    LET t == toks[i] IN
    CASE t.q = "1" -> AtomAt(t, s, p) /\ MatchHere(toks, i + 1, s, Adv(t, p))
      [] t.q = "?" -> \/ AtomAt(t, s, p) /\ MatchHere(toks, i + 1, s, Adv(t, p))
                      \/ MatchHere(toks, i + 1, s, p)
      [] t.q = "*" -> \/ MatchHere(toks, i + 1, s, p)
                      \/ /\ t.kind = "set"
                         /\ AtomAt(t, s, p)
                         /\ MatchHere(toks, i, s, p + 1)
      [] t.q = "+" -> /\ AtomAt(t, s, p)
                      /\ \/ MatchHere(toks, i + 1, s, Adv(t, p))
                         \/ /\ t.kind = "set"
                            /\ MatchHere(toks, i, s, p + 1)

\* Regexp.MatchString: an unanchored search, the match may start anywhere
MatchString(toks, s) == \E p \in 1..(Len(s) + 1) : MatchHere(toks, 1, s, p)

(***************************************************************************)
(* Matcher (pkg/reghost)                                                   *)
(***************************************************************************)
Record(domain, ip) == [Domain |-> domain, IP |-> ip]

\* CompileOne that gives up the compiled patterns when one does not compile
CompileOne_ResetOnError(cache, record) ==
  IF HasPrefix(record.Domain, <<"^">>) /\ ~Compile(record.Domain).ok
  THEN [d \in {} |-> <<>>]
  ELSE IF HasPrefix(record.Domain, <<"^">>)
  THEN [d \in (DOMAIN cache) \cup {record.Domain} |->
          IF d = record.Domain THEN Compile(record.Domain).toks ELSE cache[d]]
  ELSE cache

\* the body of compilePatterns' loop: the cache after looking at one record
CompileOne(cache, record) ==
  IF HasPrefix(record.Domain, <<"^">>) /\ Compile(record.Domain).ok
  THEN [d \in (DOMAIN cache) \cup {record.Domain} |->
          IF d = record.Domain THEN Compile(record.Domain).toks ELSE cache[d]]
  ELSE cache

\* compilePatterns over recs[i..], starting from cache
RECURSIVE compilePatterns(_, _, _)
compilePatterns(recs, i, cache) ==
  IF i > Len(recs) THEN cache
  ELSE compilePatterns(recs, i + 1, CompileOne(cache, recs[i]))

\* make(map[string]*regexp.Regexp)
EmptyCache == [d \in {} |-> <<>>]

\* Normalize without the strings.ToLower of line 46
Normalize_NoLower(domain) ==
  IF HasSuffix(domain, <<".">>) THEN domain ELSE Append(domain, ".")

\* Match lines 45-51: lower case, then a trailing dot when there is none
Normalize(domain) ==
  LET d == ToLower(domain) IN
  IF HasSuffix(d, <<".">>) THEN d ELSE Append(d, ".")

\* MatchRecord with strings.HasSuffix in place of == at line 60
MatchRecord_SuffixMatch(record, cache, domain) ==
  \/ HasSuffix(domain, Normalize(record.Domain))
  \/ /\ record.Domain \in DOMAIN cache
     /\ MatchString(cache[record.Domain], domain)

\* Match lines 54-69, one iteration: does this record answer the query
MatchRecord(record, cache, domain) ==
  \/ Normalize(record.Domain) = domain
  \/ /\ record.Domain \in DOMAIN cache
     /\ MatchString(cache[record.Domain], domain)

NotFound == [ip |-> "", found |-> FALSE]

Found(ip) == [ip |-> ip, found |-> TRUE]

\* MatchFrom that keeps scanning after a match: the last match wins
RECURSIVE MatchFrom_LastWins(_, _, _, _)
MatchFrom_LastWins(recs, cache, domain, i) ==
  IF i > Len(recs) THEN NotFound
  ELSE LET rest == MatchFrom_LastWins(recs, cache, domain, i + 1) IN
       IF rest.found THEN rest
       ELSE IF MatchRecord(recs[i], cache, domain) THEN Found(recs[i].IP)
       ELSE NotFound

\* Match lines 53-72: the scan of the record list from index i
RECURSIVE MatchFrom(_, _, _, _)
MatchFrom(recs, cache, domain, i) ==
  IF i > Len(recs) THEN NotFound
  ELSE IF MatchRecord(recs[i], cache, domain) THEN Found(recs[i].IP)
  ELSE MatchFrom(recs, cache, domain, i + 1)

\* Matcher.Match / Resolver.Resolve on a matcher holding (recs, cache)
Match(recs, cache, domain) == MatchFrom(recs, cache, Normalize(domain), 1)

(***************************************************************************)
(* Manager.extractSuffix / extractDomainSuffixes (internal/resolver)       *)
(***************************************************************************)
TrimSuffix(s, suf) ==
  IF HasSuffix(s, suf) THEN SubSeq(s, 1, Len(s) - Len(suf)) ELSE s

TrimPrefix(s, pre) ==
  IF HasPrefix(s, pre) THEN SubSeq(s, Len(pre) + 1, Len(s)) ELSE s

\* strings.ReplaceAll(s, old, new) for a non-empty old, from position i
RECURSIVE ReplaceFrom(_, _, _, _)
ReplaceFrom(s, old, new, i) ==
  IF i > Len(s) THEN <<>>
  ELSE IF HasPrefix(SubSeq(s, i, Len(s)), old)
  THEN new \o ReplaceFrom(s, old, new, i + Len(old))
  ELSE <<s[i]>> \o ReplaceFrom(s, old, new, i + 1)

ReplaceAll(s, old, new) == ReplaceFrom(s, old, new, 1)

\* regexp `\[.*?\]` replaced by "": every "[" up to the next "]"
RECURSIVE RemoveClasses(_, _)
RemoveClasses(s, i) ==
  IF i > Len(s) THEN <<>>
  ELSE IF s[i] = "[" /\ ClassEnd(s, i + 1) # 0
  THEN RemoveClasses(s, ClassEnd(s, i + 1) + 1)
  ELSE <<s[i]>> \o RemoveClasses(s, i + 1)

\* index of the first ")" at or after i that q follows, 0 when none
RECURSIVE GroupEnd(_, _, _)
GroupEnd(s, i, q) ==
  IF i >= Len(s) THEN 0
  ELSE IF s[i] = ")" /\ s[i + 1] = q THEN i
  ELSE GroupEnd(s, i + 1, q)

\* regexp `\(.*?\)q` replaced by "", for the quantifier q
RECURSIVE RemoveGroups(_, _, _)
RemoveGroups(s, i, q) ==
  IF i > Len(s) THEN <<>>
  ELSE IF s[i] = "(" /\ GroupEnd(s, i + 1, q) # 0
  THEN RemoveGroups(s, GroupEnd(s, i + 1, q) + 2, q)
  ELSE <<s[i]>> \o RemoveGroups(s, i + 1, q)

\* strings.Split(s, "."), from position i with the part cur in progress
RECURSIVE SplitDots(_, _, _)
SplitDots(s, i, cur) ==
  IF i > Len(s) THEN <<cur>>
  ELSE IF s[i] = "." THEN <<cur>> \o SplitDots(s, i + 1, <<>>)
  ELSE SplitDots(s, i + 1, Append(cur, s[i]))

RECURSIVE TrimLeft(_)
TrimLeft(s) ==
  IF s # <<>> /\ Head(s) = " " THEN TrimLeft(Tail(s)) ELSE s

RECURSIVE TrimRight(_)
TrimRight(s) ==
  IF s # <<>> /\ s[Len(s)] = " " THEN TrimRight(SubSeq(s, 1, Len(s) - 1)) ELSE s

TrimSpace(s) == TrimRight(TrimLeft(s))

NonEmpty(part) == part # <<>>

extractSuffix(pattern) ==
  LET p1 == TrimSuffix(pattern, <<".">>)
      p2 == TrimPrefix(p1, <<"^">>)
      p3 == TrimSuffix(p2, <<"$">>)
      p4 == ReplaceAll(p3, <<"\\", ".">>, <<".">>)
      p5 == RemoveClasses(p4, 1)
      p6 == RemoveGroups(p5, 1, "+")
      p7 == RemoveGroups(p6, 1, "*")
      p8 == RemoveGroups(p7, 1, "?")
      p9 == SelectSeq(p8, LAMBDA c : c \notin {"+", "*", "?", "(", ")", "|"})
      parts == SplitDots(p9, 1, <<>>)
      trimmed == [k \in 1..Len(parts) |-> TrimSpace(parts[k])]
      cleanParts == SelectSeq(trimmed, NonEmpty)
  IN IF Len(cleanParts) = 0 THEN <<>> ELSE cleanParts[Len(cleanParts)]

\* the keys of suffixMap: the non-empty suffixes of the non-empty domains
extractDomainSuffixes(recs) ==
  {extractSuffix(recs[k].Domain) :
     k \in {n \in 1..Len(recs) : recs[n].Domain # <<>>}} \ {<<>>}

(***************************************************************************)
(* Inputs: the record patterns, the record lists and the query names.      *)
(***************************************************************************)
\* "A.c", a literal with an upper-case letter
DomLiteral == <<"A", ".", "c">>
\* "^[ab]+\.c\.$", the shape of the README's ^[a-zA-Z0-9-]+\.myhost\.$
DomRegex == <<"^", "[", "a", "b", "]", "+", "\\", ".", "c", "\\", ".", "$">>
\* "b.", a literal that is already fully qualified
DomDotted == <<"b", ".">>
\* "^[.a", a pattern that does not compile (missing closing ])
DomBadRegex == <<"^", "[", ".", "a">>
\* "a", a one-label literal
DomPlain == <<"a">>

\* "^[ab]+$", a regex from which extractSuffix gets no suffix
DomNoSuffix == <<"^", "[", "a", "b", "]", "+", "$">>

IPs == {"ip1", "ip2"}

AllRecords ==
  {Record(DomLiteral, "ip1"), Record(DomRegex, "ip2"), Record(DomDotted, "ip1"),
   Record(DomBadRegex, "ip2"), Record(DomPlain, "ip1"), Record(DomPlain, "ip2")}

ListsOver(S) == UNION {[1..n -> S] : n \in 0..MaxRecords}

AllLists == ListsOver(AllRecords)

LiteralDomains == {DomLiteral, DomDotted, DomPlain}

\* every literal as written, with a dot appended and in upper case, and
\* names only the regex, only the uncompilable pattern or nothing matches
Queries ==
  UNION {{d, Append(d, "."), ToUpper(d)} : d \in LiteralDomains}
  \cup {<<"b", ".", "c">>, <<"a", "b", ".", "c", ".">>, DomBadRegex,
        <<"c">>, <<"b", ".", "c", ".", "a">>}

\* every suffix a record of the model yields: the hint files of the model
SuffixUniverse == UNION {extractDomainSuffixes(<<r>>) : r \in AllRecords}

\* the lists given to UpdateResolverFiles.  It reads its argument only
\* through the set of suffixes, which depends neither on the order of the
\* records nor on their IPs: one list for every set of at most MaxRecords
\* of three records that yield the three suffixes.
ReconRecords ==
  <<Record(DomPlain, "ip1"), Record(DomDotted, "ip1"), Record(DomRegex, "ip2")>>

SubList(S) ==
  LET idx == SelectSeq(<<1, 2, 3>>, LAMBDA i : i \in S) IN
  [k \in 1..Len(idx) |-> ReconRecords[idx[k]]]

ReconLists ==
  {SubList(S) : S \in {T \in SUBSET (1..3) : Cardinality(T) <= MaxRecords}}

\* the active records of the daemon: never empty (Validate, main line 54)
DaemonLists ==
  {<<Record(DomPlain, "ip1")>>, <<Record(DomDotted, "ip1")>>,
   <<Record(DomNoSuffix, "ip2")>>}

\* the lists and names of the concurrent matcher: a literal and a regex
\* that both match "a.c."
ConcRecords == {Record(DomLiteral, "ip1"), Record(DomRegex, "ip2")}

\* every list of them that names no record twice
ConcLists ==
  {l \in ListsOver(ConcRecords) :
     \A i, j \in 1..Len(l) : l[i] = l[j] => i = j}

ConcQueries == {<<"a", ".", "c">>, <<"b", ".", "c">>}

\* the goroutines that call Cache.Lookup (one per inbound query)
Readers == {"q1", "q2"}

(***************************************************************************)
(* State                                                                   *)
(***************************************************************************)
VARIABLES
  records,      \* Matcher.records
  regexCache,   \* Matcher.regexCache: pattern -> compiled expression
  cacheMu,      \* Cache.mu:   [writer, readers]
  matcherMu,    \* Matcher.mu: [writer, readers]
  rpc,          \* position of each Lookup goroutine
  rq,           \* its argument
  rdomain,      \* Match's local domain, normalised
  rrecs,        \* the slice the range statement iterates over
  ri,           \* the index of the range statement
  rres,         \* the (ip, found) it returns
  wpc,          \* position of the goroutine that calls Cache.Update
  wrecs,        \* its argument
  wi,           \* compilePatterns' index
  committed,    \* history: the list of the last Update that returned
  updCount,     \* history: the number of Update calls that returned
  rcand,        \* history: the lists of every Update a Lookup overlapped,
                \*   and the list in force when it was called
  rstart,       \* history: updCount when the Lookup was called
  rquiet,       \* history: no Update was in progress when the Lookup was
                \*   called and none has been called since
  call,         \* sequential caller: the last Resolve, [q, res]
  forms,        \* sequential caller: Resolve of D, D + "." and ToUpper(D)
  managedDomains, \* Manager.managedDomains: the keys of the map
  files,        \* /etc/resolver/<suffix>: "absent", "correct" (the two
                \*   lines for bindIP) or "wrong" (any other content)
  dirExists,    \* /etc/resolver exists
  ppc,          \* position of the UpdateResolverFiles call
  ptodo,        \* suffixes the first loop has not visited yet
  pnew,         \* newDomains
  pchg,         \* changesMade
  prem,         \* keys of managedDomains the second loop has not visited
  perr,         \* UpdateResolverFiles returned an error
  pass,         \* history of the call in progress: what it was given,
                \*   found and did
  last,         \* history: the same of the call before it
  drift,        \* history: a hint file was changed from outside since
                \*   the last call returned
  extCount,     \* history: the number of changes from outside
  passCount,    \* history: the number of calls that returned
  cln,          \* history of CleanupAll: what it found and did
  mpc,          \* position of the main goroutine of reghostd
  attempt,      \* bindLoopbackIP: the loop variable i
  tried,        \* history: the candidates bindLoopbackIP generated
  probe,        \* history: the attempt bindLoopbackIP returned from
  aliases,      \* the addresses aliased on the loopback interface
  bindIP,       \* Server.bindIP
  resolverManager,     \* Server.resolverManager is not nil
  resolverConfigured,  \* Server.resolverConfigured
  tickerOn,     \* the monitorResolverConfig goroutine was started
  udp,          \* the UDP listener
  tcp,          \* the TCP listener
  watcherOn,    \* the config watcher exists and watches
  gpc,          \* position of the monitor and watcher goroutines
  gsuf,         \* the suffixes of the records of the call in progress,
                \*   one per goroutine
  raced,        \* the call in progress overlapped another call on the
                \*   same Manager, one per goroutine
  exitCode,     \* the exit status of the process, -1 while it runs
  hist,         \* history of the run of the daemon
  resolvConf,   \* the lines of /etc/resolv.conf (Linux)
  originalResolvConf,  \* Server.originalResolvConf
  lpc,          \* position of the daemon on Linux
  lin,          \* history of the last call on the resolver of Linux
  cfgFile,      \* the YAML document in the config file
  tmpFile,      \* the same in the temporary file next to it
  wlast,        \* history of the last call on the Writer
  reply,        \* history: the last query and the reply of ServeDNS
  sfx,          \* history: the last pattern given to extractSuffix and
                \*   the suffix it returned
  events,       \* the fsnotify events the watcher has not received
                \*   yet, oldest first
  wtc,          \* position of the watcher goroutine
  wnew,         \* the records reloadConfig hands to the callback
  whist,        \* history of the watcher
  rop,          \* the Get method of the Cache a goroutine is in
  rcopy         \* the slice that method returns

matcherVars == <<records, regexCache, cacheMu, matcherMu>>

readerVars == <<rpc, rq, rdomain, rrecs, ri, rres, rcand, rstart, rquiet>>

writerVars == <<wpc, wrecs, wi, committed, updCount>>

callerVars == <<call, forms>>

managerVars == <<managedDomains, files, dirExists>>

passVars ==
  <<ppc, ptodo, pnew, pchg, prem, perr, pass, last, drift, extCount, passCount>>

reconVars == <<managerVars, passVars>>

bindVars == <<attempt, tried, probe>>

serverVars ==
  <<mpc, aliases, bindIP, resolverManager, resolverConfigured, tickerOn,
    udp, tcp, watcherOn, exitCode>>

goVars == <<gpc, gsuf, raced>>

srvVars == <<cln, bindVars, serverVars, goVars, hist>>

linuxVars == <<resolvConf, originalResolvConf, lpc, lin>>

cfgVars == <<cfgFile, tmpFile, wlast>>

watchVars == <<events, wtc, wnew, whist>>

getVars == <<rop, rcopy>>

extVars == <<linuxVars, cfgVars, reply, sfx, watchVars, getVars>>

vars ==
  <<matcherVars, readerVars, writerVars, callerVars, reconVars, srvVars,
    extVars>>

(***************************************************************************)
(* sync.RWMutex                                                            *)
(***************************************************************************)
\* a sync.RWMutex: a writer holds it, the number of readers that hold it,
\* and a writer that has called Lock and waits for the readers to leave
Unlocked == [writer |-> FALSE, readers |-> 0, waiting |-> FALSE]

\* CanRLock of a mutex whose readers do not wait for the writer
CanRLock_IgnoresWriter(mu) == TRUE

\* RLock returns when no writer holds the mutex and none waits for it
CanRLock(mu) == ~mu.writer /\ ~mu.waiting

\* Lock returns when nobody holds the mutex
CanLock(mu) == ~mu.writer /\ mu.readers = 0

RLock(mu) == [mu EXCEPT !.readers = @ + 1]

\* RUnlock that leaves the reader counted
RUnlock_Leak(mu) == mu

RUnlock(mu) == [mu EXCEPT !.readers = @ - 1]

Lock(mu) == [mu EXCEPT !.writer = TRUE, !.waiting = FALSE]

\* Lock called while readers hold the mutex: readers that call RLock from
\* now on wait behind the writer
Announce(mu) == [mu EXCEPT !.waiting = TRUE]

Unlock(mu) == [mu EXCEPT !.writer = FALSE]

(***************************************************************************)
(* NewMatcher / NewResolver / NewCache                                     *)
(***************************************************************************)
NewMatcher(recs) ==
  /\ records = recs
  /\ regexCache = compilePatterns(recs, 1, EmptyCache)
  /\ cacheMu = Unlocked
  /\ matcherMu = Unlocked

NoCall == [q |-> <<>>, res |-> NotFound, made |-> FALSE]

NoForms ==
  [d |-> <<>>, plain |-> NotFound, dotted |-> NotFound, upper |-> NotFound,
   made |-> FALSE]

InitReaders ==
  /\ rpc = [r \in Readers |-> "idle"]
  /\ rq = [r \in Readers |-> <<>>]
  /\ rdomain = [r \in Readers |-> <<>>]
  /\ rrecs = [r \in Readers |-> <<>>]
  /\ ri = [r \in Readers |-> 0]
  /\ rres = [r \in Readers |-> NotFound]
  /\ rcand = [r \in Readers |-> {}]
  /\ rstart = [r \in Readers |-> 0]
  /\ rquiet = [r \in Readers |-> FALSE]

InitWriter(recs) ==
  /\ wpc = "idle"
  /\ wrecs = <<>>
  /\ wi = 0
  /\ committed = recs
  /\ updCount = 0

InitCaller ==
  /\ call = NoCall
  /\ forms = NoForms

(***************************************************************************)
(* Cache.Lookup -> Resolver.Resolve -> Matcher.Match, one goroutine r      *)
(***************************************************************************)
\* the handler calls cache.Lookup(q)
Lookup(r, q) ==
  /\ rpc[r] = "idle"
  /\ rpc' = [rpc EXCEPT ![r] = "cacheRLock"]
  /\ rq' = [rq EXCEPT ![r] = q]
  /\ rcand' = [rcand EXCEPT ![r] =
                 {committed} \cup (IF wpc = "idle" THEN {} ELSE {wrecs})]
  /\ rstart' = [rstart EXCEPT ![r] = updCount]
  /\ rquiet' = [rquiet EXCEPT ![r] = (wpc = "idle")]
  /\ UNCHANGED <<matcherVars, rdomain, rrecs, ri, rres, writerVars, callerVars, extVars, srvVars, reconVars>>

\* Cache.Lookup: c.mu.RLock()
LookupRLock(r) ==
  /\ rpc[r] = "cacheRLock"
  /\ CanRLock(cacheMu)
  /\ cacheMu' = RLock(cacheMu)
  /\ rpc' = [rpc EXCEPT ![r] = "matchRLock"]
  /\ UNCHANGED <<records, regexCache, matcherMu, rq, rdomain, rrecs, ri, rres,
                 rcand, rstart, rquiet, writerVars, callerVars, extVars, srvVars, reconVars>>

\* Matcher.Match: m.mu.RLock(), the normalisation of the argument and the
\* evaluation of the range expression m.records
MatchRLock(r) ==
  /\ rpc[r] = "matchRLock"
  /\ CanRLock(matcherMu)
  /\ matcherMu' = RLock(matcherMu)
  /\ rdomain' = [rdomain EXCEPT ![r] = Normalize(rq[r])]
  /\ rrecs' = [rrecs EXCEPT ![r] = records]
  /\ ri' = [ri EXCEPT ![r] = 1]
  /\ rpc' = [rpc EXCEPT ![r] = "loop"]
  /\ UNCHANGED <<records, regexCache, cacheMu, rq, rres, rcand, rstart, rquiet,
                 writerVars, callerVars, extVars, srvVars, reconVars>>

\* one iteration of the loop over the records, or the return after it
MatchIter(r) ==
  /\ rpc[r] = "loop"
  /\ IF ri[r] > Len(rrecs[r])
     THEN /\ rres' = [rres EXCEPT ![r] = NotFound]
          /\ rpc' = [rpc EXCEPT ![r] = "return"]
          /\ ri' = ri
     ELSE IF MatchRecord(rrecs[r][ri[r]], regexCache, rdomain[r])
     THEN /\ rres' = [rres EXCEPT ![r] = Found(rrecs[r][ri[r]].IP)]
          /\ rpc' = [rpc EXCEPT ![r] = "return"]
          /\ ri' = ri
     ELSE /\ ri' = [ri EXCEPT ![r] = @ + 1]
          /\ UNCHANGED <<rres, rpc>>
  /\ UNCHANGED <<matcherVars, rq, rdomain, rrecs, rcand, rstart, rquiet, writerVars,
                 callerVars, extVars, srvVars, reconVars>>

\* the deferred m.mu.RUnlock() and c.mu.RUnlock(): Lookup has returned rres
MatchReturn(r) ==
  /\ rpc[r] = "return"
  /\ matcherMu' = RUnlock(matcherMu)
  /\ cacheMu' = RUnlock(cacheMu)
  /\ rpc' = [rpc EXCEPT ![r] = "done"]
  /\ UNCHANGED <<records, regexCache, rq, rdomain, rrecs, ri, rres, rcand,
                 rstart, rquiet, writerVars, callerVars, extVars, srvVars, reconVars>>

\* the goroutine of the query ends
LookupDone(r) ==
  /\ rpc[r] = "done"
  /\ rpc' = [rpc EXCEPT ![r] = "idle"]
  /\ rq' = [rq EXCEPT ![r] = <<>>]
  /\ rdomain' = [rdomain EXCEPT ![r] = <<>>]
  /\ rrecs' = [rrecs EXCEPT ![r] = <<>>]
  /\ ri' = [ri EXCEPT ![r] = 0]
  /\ rres' = [rres EXCEPT ![r] = NotFound]
  /\ rcand' = [rcand EXCEPT ![r] = {}]
  /\ rstart' = [rstart EXCEPT ![r] = 0]
  /\ rquiet' = [rquiet EXCEPT ![r] = FALSE]
  /\ UNCHANGED <<matcherVars, writerVars, callerVars, extVars, srvVars, reconVars>>

(***************************************************************************)
(* Cache.Update -> Resolver.UpdateRecords -> Matcher.Update                *)
(***************************************************************************)
\* the reload callback calls cache.Update(recs)
Update(recs) ==
  /\ wpc = "idle"
  /\ updCount < MaxUpdates
  /\ wpc' = "cacheLock"
  /\ wrecs' = recs
  /\ rcand' = [r \in Readers |->
                 IF rpc[r] \in {"idle", "done"} THEN rcand[r]
                 ELSE rcand[r] \cup {recs}]
  /\ rquiet' = [r \in Readers |->
                  IF rpc[r] \in {"idle", "done"} THEN rquiet[r] ELSE FALSE]
  /\ UNCHANGED <<matcherVars, rpc, rq, rdomain, rrecs, ri, rres, rstart, wi,
                 committed, updCount, callerVars, extVars, srvVars, reconVars>>

\* Cache.Update: c.mu.Lock()
UpdateCacheLock ==
  /\ wpc = "cacheLock"
  /\ CanLock(cacheMu) \/ ~cacheMu.waiting
  /\ cacheMu' = IF CanLock(cacheMu) THEN Lock(cacheMu)
                ELSE Announce(cacheMu)
  /\ wpc' = IF CanLock(cacheMu) THEN "matcherLock" ELSE wpc
  /\ UNCHANGED <<records, regexCache, matcherMu, readerVars, wrecs, wi,
                 committed, updCount, callerVars, extVars, srvVars, reconVars>>

\* Matcher.Update: m.mu.Lock()
UpdateMatcherLock ==
  /\ wpc = "matcherLock"
  /\ CanLock(matcherMu) \/ ~matcherMu.waiting
  /\ matcherMu' = IF CanLock(matcherMu) THEN Lock(matcherMu)
                  ELSE Announce(matcherMu)
  /\ wpc' = IF CanLock(matcherMu) THEN "setRecords" ELSE wpc
  /\ UNCHANGED <<records, regexCache, cacheMu, readerVars, wrecs, wi,
                 committed, updCount, callerVars, extVars, srvVars, reconVars>>

\* UpdateSetRecords that appends to the list in place of replacing it
UpdateSetRecords_Append ==
  /\ wpc = "setRecords"
  /\ records' = records \o wrecs
  /\ wpc' = "resetCache"
  /\ UNCHANGED <<regexCache, cacheMu, matcherMu, readerVars, wrecs, wi,
                 committed, updCount, callerVars, extVars, srvVars, reconVars>>

\* m.records = records
UpdateSetRecords ==
  /\ wpc = "setRecords"
  /\ records' = wrecs
  /\ wpc' = "resetCache"
  /\ UNCHANGED <<regexCache, cacheMu, matcherMu, readerVars, wrecs, wi,
                 committed, updCount, callerVars, extVars, srvVars, reconVars>>

\* m.regexCache = make(map[string]*regexp.Regexp)
UpdateResetCache ==
  /\ wpc = "resetCache"
  /\ regexCache' = EmptyCache
  /\ wi' = 1
  /\ wpc' = "compile"
  /\ UNCHANGED <<records, cacheMu, matcherMu, readerVars, wrecs, committed,
                 updCount, callerVars, extVars, srvVars, reconVars>>

\* m.compilePatterns(), one record at a time
UpdateCompile ==
  /\ wpc = "compile"
  /\ IF wi > Len(records)
     THEN /\ wpc' = "unlock"
          /\ UNCHANGED <<regexCache, wi>>
     ELSE /\ regexCache' = CompileOne(regexCache, records[wi])
          /\ wi' = wi + 1
          /\ wpc' = wpc
  /\ UNCHANGED <<records, cacheMu, matcherMu, readerVars, wrecs, committed,
                 updCount, callerVars, extVars, srvVars, reconVars>>

\* the deferred m.mu.Unlock() and c.mu.Unlock(): Update has returned
UpdateReturn ==
  /\ wpc = "unlock"
  /\ matcherMu' = Unlock(matcherMu)
  /\ cacheMu' = Unlock(cacheMu)
  /\ wpc' = "idle"
  /\ wrecs' = <<>>
  /\ wi' = 0
  /\ committed' = wrecs
  /\ updCount' = updCount + 1
  /\ UNCHANGED <<records, regexCache, readerVars, callerVars, extVars, srvVars, reconVars>>

(***************************************************************************)
(* Cache.GetRecords and Cache.GetDomains, called by the handlers and by    *)
(* the monitor of the resolver.                                            *)
(***************************************************************************)
GetMethods == {"GetRecords", "GetDomains"}

getFrame ==
  <<records, regexCache, rq, rdomain, rrecs, ri, rres, rcand, rstart,
    rquiet, writerVars, callerVars, reconVars, srvVars, linuxVars, cfgVars,
    reply, sfx, watchVars>>

\* Matcher.GetRecords lines 102-104 and GetDomains lines 90-94: a copy of
\* the records, or the Domain of each
CopyOf(method, recs) ==
  IF method = "GetRecords" THEN recs
  ELSE [i \in 1..Len(recs) |-> recs[i].Domain]

\* a goroutine calls cache.GetRecords() or cache.GetDomains()
Get(r, method) ==
  /\ rpc[r] = "idle"
  /\ rpc' = [rpc EXCEPT ![r] = "getCacheRLock"]
  /\ rop' = [rop EXCEPT ![r] = method]
  /\ UNCHANGED <<cacheMu, matcherMu, rcopy, getFrame>>

\* Cache.GetRecords line 48, GetDomains line 40: c.mu.RLock()
GetCacheRLock(r) ==
  /\ rpc[r] = "getCacheRLock"
  /\ CanRLock(cacheMu)
  /\ cacheMu' = RLock(cacheMu)
  /\ rpc' = [rpc EXCEPT ![r] = "getMatcherRLock"]
  /\ UNCHANGED <<matcherMu, rop, rcopy, getFrame>>

\* Matcher.GetRecords lines 99-104, GetDomains lines 87-94: m.mu.RLock()
\* and the copy
GetCopy(r) ==
  /\ rpc[r] = "getMatcherRLock"
  /\ CanRLock(matcherMu)
  /\ matcherMu' = RLock(matcherMu)
  /\ rcopy' = [rcopy EXCEPT ![r] = CopyOf(rop[r], records)]
  /\ rpc' = [rpc EXCEPT ![r] = "getReturn"]
  /\ UNCHANGED <<cacheMu, rop, getFrame>>

\* the deferred m.mu.RUnlock() and c.mu.RUnlock(): the method has returned
GetReturn(r) ==
  /\ rpc[r] = "getReturn"
  /\ matcherMu' = RUnlock(matcherMu)
  /\ cacheMu' = RUnlock(cacheMu)
  /\ rpc' = [rpc EXCEPT ![r] = "getDone"]
  /\ UNCHANGED <<rop, rcopy, getFrame>>

\* the caller has used the copy
GetDone(r) ==
  /\ rpc[r] = "getDone"
  /\ rpc' = [rpc EXCEPT ![r] = "idle"]
  /\ rop' = [rop EXCEPT ![r] = "none"]
  /\ rcopy' = [rcopy EXCEPT ![r] = <<>>]
  /\ UNCHANGED <<cacheMu, matcherMu, getFrame>>

(***************************************************************************)
(* Manager (internal/resolver): NewManager and UpdateResolverFiles.        *)
(* exec.Command("tee"), ("rm") and ("mkdir") succeed or fail as the OS     *)
(* decides; a tee that fails leaves the file absent or with other content. *)
(***************************************************************************)
AllAbsent == [s \in SuffixUniverse |-> "absent"]

\* the suffixes whose hint file holds the expected content
Correct(fs) == {s \in SuffixUniverse : fs[s] = "correct"}

NoPass ==
  [suf |-> {}, man0 |-> {}, correct0 |-> {}, clean |-> FALSE,
   written |-> {}, failW |-> {}, verified |-> {}, removed |-> {},
   failR |-> {}, flushes |-> 0]

NoLast ==
  [valid |-> FALSE, suf |-> {}, err |-> FALSE, failW |-> {}, failR |-> {}]

\* no CleanupAll since the last pass began
NoClean ==
  [done |-> FALSE, again |-> FALSE, failedBefore |-> FALSE,
   tried |-> {}, removed |-> {}]

\* NewManager: an empty managedDomains map
NewManager ==
  /\ managedDomains = {}
  /\ ppc = "idle"
  /\ ptodo = {}
  /\ pnew = {}
  /\ pchg = FALSE
  /\ prem = {}
  /\ perr = FALSE
  /\ pass = NoPass
  /\ last = NoLast
  /\ drift = FALSE
  /\ extCount = 0
  /\ passCount = 0

\* UpdateResolverFiles lines 246-253: the suffixes of the records, and
\* the return when there is none
UpdateResolverFiles(recs) ==
  /\ ppc = "idle"
  /\ passCount < MaxPasses
  /\ LET suffixes == extractDomainSuffixes(recs) IN
     /\ pass' = [NoPass EXCEPT !.suf = suffixes, !.man0 = managedDomains,
                               !.correct0 = Correct(files),
                               !.clean = ~drift]
     /\ ptodo' = suffixes
     /\ ppc' = IF suffixes = {} THEN "returned" ELSE "ensureDir"
  /\ drift' = FALSE
  /\ pnew' = {}
  /\ pchg' = FALSE
  /\ prem' = {}
  /\ perr' = FALSE
  /\ cln' = NoClean
  /\ UNCHANGED <<matcherVars, readerVars, writerVars, callerVars, extVars, bindVars,
                 serverVars, goVars, hist, managerVars, last, extCount,
                 passCount>>

\* lines 255-262: ensureResolverDir, whose mkdir may fail
ensureResolverDir ==
  /\ ppc = "ensureDir"
  /\ \E ok \in BOOLEAN :
       IF dirExists \/ ok
       THEN /\ dirExists' = TRUE
            /\ ppc' = "create"
            /\ perr' = perr
       ELSE /\ dirExists' = dirExists
            /\ ppc' = "returned"
            /\ perr' = TRUE
  /\ UNCHANGED <<matcherVars, readerVars, writerVars, callerVars, extVars, srvVars,
                 managedDomains, files, ptodo, pnew, pchg, prem, pass, last,
                 drift, extCount, passCount>>

\* NeedsWrite without the comparison with the expected content
NeedsWrite_Always(content) == TRUE

\* createResolverFile lines 405-413: the file is written unless it exists
\* with the expected content
NeedsWrite(content) == content # "correct"

\* CreateFailedNext of a loop that returns on the first failure
CreateFailedNext_Abort == "returned"

\* where the first loop goes after a failed createResolverFile: continue
CreateFailedNext == "create"

\* lines 265-278, one iteration: createResolverFile(suffix) and its outcome
CreateLoop ==
  /\ ppc = "create"
  /\ \E suffix \in ptodo : \E ok \in BOOLEAN :
       LET isNew == suffix \notin managedDomains IN
       /\ ptodo' = ptodo \ {suffix}
       /\ IF ~NeedsWrite(files[suffix])
          THEN /\ pass' = [pass EXCEPT !.verified = @ \cup {suffix}]
               /\ pchg' = (pchg \/ isNew)
               /\ pnew' = pnew \cup {suffix}
               /\ ppc' = "create"
               /\ files' = files
          ELSE IF ok
          THEN /\ files' = [files EXCEPT ![suffix] = "correct"]
               /\ pass' = [pass EXCEPT !.written = @ \cup {suffix}]
               /\ pchg' = (pchg \/ isNew)
               /\ pnew' = pnew \cup {suffix}
               /\ ppc' = "create"
          ELSE /\ files' = files
               /\ pass' = [pass EXCEPT !.failW = @ \cup {suffix}]
               /\ ppc' = CreateFailedNext
               /\ UNCHANGED <<pchg, pnew>>
  /\ UNCHANGED <<matcherVars, readerVars, writerVars, callerVars, extVars, srvVars,
                 managedDomains, dirExists, prem, perr, last, drift, extCount, passCount>>

\* the first loop is over: the range over m.managedDomains starts
CreateLoopEnd ==
  /\ ppc = "create"
  /\ ptodo = {}
  /\ prem' = managedDomains
  /\ ppc' = "remove"
  /\ UNCHANGED <<matcherVars, readerVars, writerVars, callerVars, extVars, srvVars, managerVars,
                 ptodo, pnew, pchg, perr, pass, last, drift, extCount, passCount>>

\* IsStale without the lookup in newDomains
IsStale_Always(domain, newDomains) == TRUE

\* line 282: the managed domain is removed when newDomains lacks it
IsStale(domain, newDomains) == domain \notin newDomains

\* lines 281-289, one iteration: removeResolverFile(domain) when stale;
\* a removal that succeeds deletes the key from managedDomains (line 436)
RemoveLoop ==
  /\ ppc = "remove"
  /\ \E domain \in prem : \E ok \in BOOLEAN :
       /\ prem' = prem \ {domain}
       /\ IF ~IsStale(domain, pnew)
          THEN UNCHANGED <<files, managedDomains, pchg, pass>>
          ELSE IF ok
          THEN /\ files' = [files EXCEPT ![domain] = "absent"]
               /\ managedDomains' = managedDomains \ {domain}
               /\ pchg' = TRUE
               /\ pass' = [pass EXCEPT !.removed = @ \cup {domain}]
          ELSE /\ pass' = [pass EXCEPT !.failR = @ \cup {domain}]
               /\ UNCHANGED <<files, managedDomains, pchg>>
  /\ UNCHANGED <<matcherVars, readerVars, writerVars, callerVars, extVars, srvVars, dirExists,
                 ppc, ptodo, pnew, perr, last, drift, extCount, passCount>>

\* flushDNSCache: the two commands run, their errors are ignored
flushDNSCache(flushes) == flushes + 1

\* lines 291-300: m.managedDomains = newDomains, the flush when
\* changesMade, return nil
RemoveLoopEnd ==
  /\ ppc = "remove"
  /\ prem = {}
  /\ managedDomains' = pnew
  /\ pass' = [pass EXCEPT !.flushes =
                IF pchg THEN flushDNSCache(@) ELSE @]
  /\ ppc' = "returned"
  /\ UNCHANGED <<matcherVars, readerVars, writerVars, callerVars, extVars, srvVars, files,
                 dirExists, ptodo, pnew, pchg, prem, perr, last, drift,
                 extCount, passCount>>

\* the caller has the result: the call becomes the previous call
Returned ==
  /\ ppc = "returned"
  /\ ppc' = "idle"
  /\ last' = [valid |-> TRUE, suf |-> pass.suf, err |-> perr,
              failW |-> pass.failW, failR |-> pass.failR]
  /\ pass' = NoPass
  /\ ptodo' = {}
  /\ pnew' = {}
  /\ pchg' = FALSE
  /\ prem' = {}
  /\ perr' = FALSE
  /\ passCount' = passCount + 1
  /\ UNCHANGED <<matcherVars, readerVars, writerVars, callerVars, extVars, srvVars, managerVars,
                 drift, extCount>>

\* another program deletes or rewrites a hint file.  A pass reads or
\* writes each file in one step, so a change during a pass has the effect
\* of one before it or one after it: the changes are taken between passes.
ExternalChange(suffix, content) ==
  /\ ppc = "idle"
  /\ passCount < MaxPasses
  /\ extCount < MaxExternal
  /\ files[suffix] # content
  /\ files' = [files EXCEPT ![suffix] = content]
  /\ drift' = TRUE
  /\ extCount' = extCount + 1
  /\ UNCHANGED <<matcherVars, readerVars, writerVars, callerVars, extVars, srvVars,
                 managedDomains, dirExists, ppc, ptodo, pnew, pchg, prem, perr,
                 pass, last, passCount>>

(***************************************************************************)
(* Manager.CleanupAll and Manager.GetManagedDomains                        *)
(***************************************************************************)
\* ManagedAfterCleanup that keeps the domains whose removal failed
ManagedAfterCleanup_KeepFailed(man, failR) == man \cap failR

\* line 451: m.managedDomains = make(map[string]bool), whatever the loop did
ManagedAfterCleanup(man, failR) == {}

\* CleanupAll lines 441-454 on the map man and the files fs, when rm fails
\* for the domains of failR: every key is tried, a removal that succeeds
\* deletes the file, the cache is flushed once and the map is replaced
CleanupResult(man, fs, failR) ==
  [managed |-> ManagedAfterCleanup(man, failR),
   tried |-> man,
   removed |-> man \ failR,
   files |-> [s \in SuffixUniverse |->
                IF s \in man \ failR THEN "absent" ELSE fs[s]],
   flushes |-> flushDNSCache(0)]

\* GetManagedDomains lines 464-470: the keys of the map
GetManagedDomains == managedDomains

\* a caller of the Manager calls CleanupAll between two passes
CleanupAll ==
  /\ ppc = "idle"
  /\ passCount < MaxPasses
  /\ \E failR \in SUBSET managedDomains :
       LET r == CleanupResult(managedDomains, files, failR) IN
       /\ managedDomains' = r.managed
       /\ files' = r.files
       /\ cln' = [done |-> TRUE, again |-> cln.done,
                  failedBefore |-> (cln.tried # cln.removed),
                  tried |-> r.tried, removed |-> r.removed]
  /\ ppc' = "cleaned"
  /\ last' = NoLast
  /\ UNCHANGED <<matcherVars, readerVars, writerVars, callerVars, extVars, dirExists,
                 ptodo, pnew, pchg, prem, perr, pass, drift, extCount,
                 passCount, bindVars, serverVars, goVars, hist>>

\* the caller has the result of CleanupAll
CleanupReturned ==
  /\ ppc = "cleaned"
  /\ ppc' = "idle"
  /\ passCount' = passCount + 1
  /\ UNCHANGED <<matcherVars, readerVars, writerVars, callerVars, extVars, managerVars,
                 ptodo, pnew, pchg, prem, perr, pass, last, drift, extCount,
                 srvVars>>

(***************************************************************************)
(* reghostd: main, Server.Start, Server.Shutdown, the monitor goroutine    *)
(* and the reload callback of the watcher (runtime.GOOS = "darwin").       *)
(***************************************************************************)
\* 127.0.0.<octet>
IP(octet) == <<"1", "2", "7", ".", "0", ".", "0", ".">> \o octet

Loopback1 == IP(<<"1">>)

NoIP == <<>>

\* the addresses rand.Intn can produce, cut down to two: the reserved
\* one and one other
Candidates == {Loopback1, IP(<<"2">>)}

\* bindLoopbackIP line 141
maxAttempts == 100

\* strings.Contains
Contains(s, sub) ==
  \E i \in 1..(Len(s) - Len(sub) + 1) : SubSeq(s, i, i + Len(sub) - 1) = sub

RECURSIVE Listing(_)
Listing(S) ==
  IF S = {} THEN <<>>
  ELSE LET ip == CHOOSE x \in S : TRUE IN
       <<" ">> \o ip \o <<" ">> \o Listing(S \ {ip})

\* the output of `ifconfig lo0`: 127.0.0.1 and the aliases
IfconfigOutput(al) == Listing(al \cup {Loopback1})

\* isIPInUse lines 173-194: false when the command fails, else whether the
\* output contains the address
isIPInUse(ip, al, cmdOk) == cmdOk /\ Contains(IfconfigOutput(al), ip)

\* SkipCandidate that does not look at the probe
SkipCandidate_NoProbe(ip, inUse) == ip = Loopback1

\* lines 149-158: the candidate is skipped when it is 127.0.0.1 or in use
SkipCandidate(ip, inUse) == ip = Loopback1 \/ inUse

\* NextAttempt that does not count a rejected 127.0.0.1
NextAttempt_FreeRetry(i, ip) == IF ip = Loopback1 THEN i ELSE i + 1

\* line 142: every continue runs i++
NextAttempt(i, ip) == i + 1

\* BindFailedNext of a Start that goes on without an address
BindFailedNext_GoOn == "bound"

\* lines 47-49 and main lines 66-69: Start returns the error, main exits
BindFailedNext == "exited"

NoProbe == [ip |-> NoIP, inUse |-> FALSE, added |-> FALSE]

NoHist ==
  [ticks |-> 0, relCmds |-> 0, relOk |-> FALSE, relAfterOk |-> 0, exhausted |-> FALSE,
   sdCalls |-> 0, cleanupBegun |-> FALSE, cleanFailed |-> FALSE,
   relFailed |-> FALSE, srvErr |-> FALSE, sdErr |-> FALSE,
   lateTick |-> FALSE, lateWrite |-> FALSE, tickMissed |-> FALSE]

Goroutines == {"main", "monitor", "watcher"}

\* NewServer lines 33-41, before Start
NewServer ==
  /\ cln = NoClean
  /\ mpc = "start"
  /\ attempt = 0
  /\ tried = 0
  /\ probe = NoProbe
  /\ bindIP = NoIP
  /\ resolverManager = FALSE
  /\ resolverConfigured = FALSE
  /\ tickerOn = FALSE
  /\ udp = "none"
  /\ tcp = "none"
  /\ watcherOn = FALSE
  /\ gpc = [g \in Goroutines |-> "idle"]
  /\ gsuf = [g \in Goroutines |-> {}]
  /\ raced = [g \in Goroutines |-> FALSE]
  /\ exitCode = -1
  /\ hist = NoHist

\* the variables the daemon's own steps never change
quietVars ==
  <<cacheMu, matcherMu, readerVars, wpc, wrecs, wi, callerVars, ppc, ptodo,
    pnew, pchg, prem, perr, pass, last, drift, extCount, passCount, cln,
    extVars>>

cacheVars == <<records, regexCache, committed, updCount>>

\* the process runs
alive == mpc # "exited"

Min(a, b) == IF a < b THEN a ELSE b

\* UpdateResolverFiles lines 246-301 as one call on the map man, the files
\* fs and the directory dir, when mkdir succeeds as mkdirOk says and tee
\* and rm fail for the suffixes of failW and failR
RunPass(man, fs, dir, suffixes, mkdirOk, failW, failR) ==
  IF suffixes = {}
  THEN [managed |-> man, files |-> fs, dir |-> dir, err |-> FALSE,
        written |-> {}, failedW |-> {}, removed |-> {}, flushes |-> 0]
  ELSE IF ~dir /\ ~mkdirOk
  THEN [managed |-> man, files |-> fs, dir |-> dir, err |-> TRUE,
        written |-> {}, failedW |-> {}, removed |-> {}, flushes |-> 0]
  ELSE
    LET failedW == {s \in suffixes : NeedsWrite(fs[s]) /\ s \in failW}
        newDomains == suffixes \ failedW
        written == {s \in newDomains : NeedsWrite(fs[s])}
        removed == {d \in man : IsStale(d, newDomains) /\ d \notin failR}
        changesMade == (newDomains \ man # {}) \/ (removed # {})
    IN [managed |-> newDomains,
        files |-> [s \in SuffixUniverse |->
                     IF s \in newDomains THEN "correct"
                     ELSE IF s \in removed THEN "absent" ELSE fs[s]],
        dir |-> TRUE, err |-> FALSE, written |-> written,
        failedW |-> failedW, removed |-> removed,
        flushes |-> IF changesMade THEN flushDNSCache(0) ELSE 0]

\* the goroutines inside a method of the Manager
Inside == {g \in Goroutines : gpc[g] = "inCall"}

\* those of them whose call uses the map managedDomains: CleanupAll
\* (lines 444-451), and UpdateResolverFiles once it is past the return for
\* no suffix and past ensureResolverDir (lines 250-258)
Touching ==
  {g \in Inside :
     IF g = "main" /\ mpc = "cleaning" THEN TRUE
     ELSE gsuf[g] # {} /\ dirExists}

\* goroutine g enters UpdateResolverFiles (touches: it will use the map)
\* or CleanupAll: the Manager has no lock, so the call overlaps those that
\* use the map already
Enter(g, suffixes, touches) ==
  /\ gpc' = [gpc EXCEPT ![g] = "inCall"]
  /\ gsuf' = [gsuf EXCEPT ![g] = suffixes]
  /\ raced' = [h \in Goroutines |->
                 IF h = g THEN touches /\ Touching # {}
                 ELSE IF h \in Touching /\ touches THEN TRUE ELSE raced[h]]

Leave(g) ==
  /\ gpc' = [gpc EXCEPT ![g] = "idle"]
  /\ gsuf' = [gsuf EXCEPT ![g] = {}]
  /\ raced' = [raced EXCEPT ![g] = FALSE]

\* the map a call leaves: what the call computed, or, when it overlapped
\* another call on the unlocked map, any set of the keys in play
ManagedAfter(g, result) ==
  IF raced[g] THEN SUBSET (managedDomains \cup gsuf[g] \cup result)
  ELSE {result}

(***************************************************************************)
(* Server.Start                                                            *)
(***************************************************************************)
\* main line 66 calls server.Start(), which calls bindLoopbackIP
Start ==
  /\ mpc = "start"
  /\ mpc' = "bind"
  /\ attempt' = 0
  /\ tried' = 0
  /\ UNCHANGED <<quietVars, cacheVars, managerVars, probe, aliases,
                 bindIP, resolverManager, resolverConfigured, tickerOn, udp,
                 tcp, watcherOn, exitCode, goVars, hist>>

\* bindLoopbackIP lines 142-169: one iteration of the loop, or the return
\* of the error after it
bindLoopbackIP ==
  /\ mpc = "bind"
  /\ IF attempt >= maxAttempts
     THEN /\ mpc' = "bindFailed"
          /\ UNCHANGED <<attempt, tried, probe, aliases>>
     ELSE \E ip \in Candidates : \E cmdOk, addOk \in BOOLEAN :
            LET inUse == ip # Loopback1 /\ isIPInUse(ip, aliases, cmdOk) IN
            /\ tried' = Min(tried + 1, maxAttempts + 1)
            /\ IF SkipCandidate(ip, inUse) \/ ~addOk
               THEN /\ attempt' = NextAttempt(attempt, ip)
                    /\ UNCHANGED <<mpc, probe, aliases>>
               ELSE /\ aliases' = aliases \cup {ip}
                    /\ probe' = [ip |-> ip, inUse |-> inUse, added |-> addOk]
                    /\ mpc' = "bound"
                    /\ attempt' = attempt
  /\ UNCHANGED <<quietVars, cacheVars, managerVars, bindIP,
                 resolverManager, resolverConfigured, tickerOn, udp, tcp,
                 watcherOn, exitCode, goVars, hist>>

\* Start lines 47-49: the error of bindLoopbackIP is returned, and main
\* lines 66-69 exit with status 1
StartBindFailed ==
  /\ mpc = "bindFailed"
  /\ mpc' = BindFailedNext
  /\ exitCode' = IF BindFailedNext = "exited" THEN 1 ELSE exitCode
  /\ hist' = [hist EXCEPT !.exhausted = TRUE]
  /\ UNCHANGED <<quietVars, cacheVars, managerVars, bindVars,
                 aliases, bindIP, resolverManager, resolverConfigured,
                 tickerOn, udp, tcp, watcherOn, goVars>>

\* Start lines 50-55 and configureMacOSResolver lines 276-288: the address
\* is kept, the Manager is created and the first pass is called with the
\* records of the cache
StartBound ==
  /\ mpc = "bound"
  /\ bindIP' = probe.ip
  /\ resolverManager' = TRUE
  /\ Enter("main", extractDomainSuffixes(records),
           extractDomainSuffixes(records) # {} /\ dirExists)
  /\ mpc' = "configure"
  /\ attempt' = 0
  /\ tried' = 0
  /\ probe' = NoProbe
  /\ UNCHANGED <<quietVars, cacheVars, managerVars, aliases,
                 resolverConfigured, tickerOn, udp, tcp, watcherOn, exitCode,
                 hist>>

\* configureMacOSResolver lines 288-296 and Start lines 55-61: the first
\* pass returns, resolverConfigured is set when it returned nil, and the
\* monitor goroutine is started
ConfigureDone ==
  /\ mpc = "configure"
  /\ \E mkdirOk \in {TRUE, dirExists} : \E failW \in SUBSET gsuf["main"] :
       LET r == RunPass(managedDomains, files, dirExists, gsuf["main"],
                        mkdirOk, failW, {}) IN
       /\ managedDomains' = r.managed
       /\ files' = r.files
       /\ dirExists' = r.dir
       /\ resolverConfigured' = ~r.err
  /\ Leave("main")
  /\ tickerOn' = TRUE
  /\ mpc' = "listen"
  /\ UNCHANGED <<quietVars, cacheVars, bindVars, aliases, bindIP,
                 resolverManager, udp, tcp, watcherOn, exitCode, hist>>

\* Start lines 63-100: the two listeners are started; an error of either
\* within 100ms is returned and main lines 66-69 exit with status 1
StartListeners ==
  /\ mpc = "listen"
  /\ \E udpOk, tcpOk \in BOOLEAN :
       /\ udp' = IF udpOk THEN "serving" ELSE "failed"
       /\ tcp' = IF tcpOk THEN "serving" ELSE "failed"
       /\ IF udpOk /\ tcpOk
          THEN /\ mpc' = "watcher"
               /\ exitCode' = exitCode
          ELSE /\ mpc' = "exited"
               /\ exitCode' = 1
  /\ UNCHANGED <<quietVars, cacheVars, managerVars, bindVars,
                 aliases, bindIP, resolverManager, resolverConfigured,
                 tickerOn, watcherOn, goVars, hist>>

\* main lines 74-100: watcher.NewWatcher, whose error exits with status 1,
\* and w.Start()
NewWatcher ==
  /\ mpc = "watcher"
  /\ \E ok \in BOOLEAN :
       IF ok
       THEN /\ watcherOn' = TRUE
            /\ mpc' = "running"
            /\ exitCode' = exitCode
       ELSE /\ watcherOn' = FALSE
            /\ mpc' = "exited"
            /\ exitCode' = 1
  /\ UNCHANGED <<quietVars, cacheVars, managerVars, bindVars,
                 aliases, bindIP, resolverManager, resolverConfigured,
                 tickerOn, udp, tcp, goVars, hist>>

(***************************************************************************)
(* monitorResolverConfig and the reload callback                           *)
(***************************************************************************)
\* monitorResolverConfig lines 392-403 and checkAndRestoreMacOSResolver
\* lines 407-414: a tick of the 30s ticker; nothing when the resolver is
\* not configured, else a pass over the records of the cache is called
MonitorTick ==
  /\ alive
  /\ tickerOn
  /\ gpc["monitor"] = "idle"
  /\ hist.ticks < MaxTicks
  /\ IF ~resolverConfigured
     THEN UNCHANGED <<goVars, hist>>
     ELSE /\ Enter("monitor", extractDomainSuffixes(records),
                   extractDomainSuffixes(records) # {} /\ dirExists)
          /\ hist' = [hist EXCEPT !.ticks = @ + 1,
                                  !.lateTick = @ \/ hist.cleanupBegun]
  /\ UNCHANGED <<quietVars, cacheVars, managerVars, bindVars,
                 serverVars>>

\* checkAndRestoreMacOSResolver lines 414-416: the pass of the tick
\* returns; its error is logged
MonitorPassDone ==
  /\ alive
  /\ gpc["monitor"] = "inCall"
  /\ \E mkdirOk \in {TRUE, dirExists} : \E failW \in SUBSET gsuf["monitor"] :
     \E failR \in SUBSET managedDomains :
       LET r == RunPass(managedDomains, files, dirExists, gsuf["monitor"],
                        mkdirOk, failW, failR) IN
       /\ managedDomains' \in ManagedAfter("monitor", r.managed)
       /\ files' = r.files
       /\ dirExists' = r.dir
       /\ hist' = [hist EXCEPT
                     !.lateWrite = @ \/ (hist.cleanupBegun /\ r.written # {}),
                     !.tickMissed =
                        @ \/ (/\ ~raced["monitor"]
                              /\ ~r.err
                              /\ r.failedW = {}
                              /\ \E s \in r.managed :
                                    r.files[s] # "correct")]
  /\ Leave("monitor")
  /\ UNCHANGED <<quietVars, cacheVars, bindVars, serverVars>>

\* the watcher goroutine sees the config file change: config.Reload gave a
\* valid config, and the callback of main lines 74-85 runs cache.Update
\* and calls server.UpdateResolverFiles with the new records
Reload(recs) ==
  /\ alive
  /\ watcherOn
  /\ gpc["watcher"] = "idle"
  /\ updCount < MaxUpdates
  /\ records' = recs
  /\ regexCache' = compilePatterns(recs, 1, EmptyCache)
  /\ committed' = recs
  /\ updCount' = updCount + 1
  /\ Enter("watcher", extractDomainSuffixes(recs),
           extractDomainSuffixes(recs) # {} /\ dirExists)
  /\ UNCHANGED <<quietVars, managerVars, bindVars, serverVars,
                 hist>>

\* main lines 85-90: the pass of the reload returns; its error is logged
ReloadPassDone ==
  /\ alive
  /\ gpc["watcher"] = "inCall"
  /\ \E mkdirOk \in {TRUE, dirExists} : \E failW \in SUBSET gsuf["watcher"] :
     \E failR \in SUBSET managedDomains :
       LET r == RunPass(managedDomains, files, dirExists, gsuf["watcher"],
                        mkdirOk, failW, failR) IN
       /\ managedDomains' \in ManagedAfter("watcher", r.managed)
       /\ files' = r.files
       /\ dirExists' = r.dir
  /\ Leave("watcher")
  /\ UNCHANGED <<quietVars, cacheVars, bindVars, serverVars, hist>>

\* the call of g can reach delete(m.managedDomains, suffix) (line 436):
\* CleanupAll on a map with a key, a pass with a stale key
Deletes(g) ==
  IF g = "main" THEN managedDomains # {}
  ELSE \E failW \in SUBSET gsuf[g] :
         RunPass(managedDomains, files, TRUE, gsuf[g], TRUE, failW,
                 {}).removed # {}

\* two goroutines use the map of the Manager at once and one of them
\* deletes a key: the Go runtime may stop the process with "fatal error:
\* concurrent map read and map write" (exit status 2)
FatalMapAccess ==
  /\ alive
  /\ \E g, h \in Touching : g # h /\ raced[g] /\ Deletes(g)
  /\ mpc' = "exited"
  /\ exitCode' = 2
  /\ UNCHANGED <<quietVars, cacheVars, managerVars, bindVars,
                 aliases, bindIP, resolverManager, resolverConfigured,
                 tickerOn, udp, tcp, watcherOn, goVars, hist>>

(***************************************************************************)
(* Server.Shutdown                                                         *)
(***************************************************************************)
\* main lines 107-115: a signal arrives and server.Shutdown(ctx) is called
Signal ==
  /\ mpc = "running"
  /\ mpc' = "sdCleanup"
  /\ hist' = [hist EXCEPT !.sdCalls = 1]
  /\ UNCHANGED <<quietVars, cacheVars, managerVars, bindVars,
                 aliases, bindIP, resolverManager, resolverConfigured,
                 tickerOn, udp, tcp, watcherOn, exitCode, goVars>>

\* Shutdown lines 107-112 and cleanupMacOSResolver lines 356-362:
\* CleanupAll is called when the resolver is configured
ShutdownCleanup ==
  /\ mpc = "sdCleanup"
  /\ IF resolverConfigured /\ resolverManager
     THEN /\ Enter("main", {}, TRUE)
          /\ mpc' = "cleaning"
          /\ hist' = [hist EXCEPT !.cleanupBegun = TRUE]
     ELSE /\ mpc' = "sdServers"
          /\ UNCHANGED <<goVars, hist>>
  /\ UNCHANGED <<quietVars, cacheVars, managerVars, bindVars,
                 aliases, bindIP, resolverManager, resolverConfigured,
                 tickerOn, udp, tcp, watcherOn, exitCode>>

\* CleanupAll returns (always nil); Shutdown goes on
ShutdownCleanupDone ==
  /\ mpc = "cleaning"
  /\ \E failR \in SUBSET managedDomains :
       LET r == CleanupResult(managedDomains, files, failR) IN
       /\ managedDomains' \in ManagedAfter("main", r.managed)
       /\ files' = r.files
       /\ hist' = [hist EXCEPT !.cleanFailed = @ \/ (failR # {})]
  /\ Leave("main")
  /\ mpc' = "sdServers"
  /\ UNCHANGED <<quietVars, cacheVars, dirExists, bindVars,
                 aliases, bindIP, resolverManager, resolverConfigured,
                 tickerOn, udp, tcp, watcherOn, exitCode>>

\* Shutdown lines 114-125: both listeners are shut down; an error of
\* either becomes the error Shutdown returns
ShutdownServers ==
  /\ mpc = "sdServers"
  /\ \E udpErr, tcpErr \in BOOLEAN :
       hist' = [hist EXCEPT !.srvErr = udpErr \/ tcpErr,
                            !.sdErr = udpErr \/ tcpErr]
  /\ udp' = "stopped"
  /\ tcp' = "stopped"
  /\ mpc' = "sdRelease"
  /\ UNCHANGED <<quietVars, cacheVars, managerVars, bindVars,
                 aliases, bindIP, resolverManager, resolverConfigured,
                 tickerOn, watcherOn, exitCode, goVars>>

\* Shutdown lines 127-134 and releaseLoopbackIP lines 221-242: the alias
\* is removed with ifconfig when bindIP is set; a failure is logged
ShutdownRelease ==
  /\ mpc = "sdRelease"
  /\ IF bindIP # NoIP
     THEN \E ok \in BOOLEAN :
            /\ aliases' = IF ok THEN aliases \ {bindIP} ELSE aliases
            /\ hist' = [hist EXCEPT
                          !.relCmds = @ + 1,
                          !.relAfterOk = IF hist.relOk THEN @ + 1 ELSE @,
                          !.relOk = @ \/ ok,
                          !.relFailed = @ \/ ~ok]
     ELSE UNCHANGED <<aliases, hist>>
  /\ mpc' = "stopped"
  /\ UNCHANGED <<quietVars, cacheVars, managerVars, bindVars,
                 bindIP, resolverManager, resolverConfigured, tickerOn, udp,
                 tcp, watcherOn, exitCode, goVars>>

\* main lines 115-120: the error of Shutdown is logged, the deferred
\* w.Close() runs and main returns (status 0)
MainExit ==
  /\ mpc = "stopped"
  /\ mpc' = "exited"
  /\ exitCode' = 0
  /\ watcherOn' = FALSE
  /\ UNCHANGED <<quietVars, cacheVars, managerVars, bindVars,
                 aliases, bindIP, resolverManager, resolverConfigured,
                 tickerOn, udp, tcp, goVars, hist>>

\* a caller of the Server other than main calls Shutdown once more
ShutdownAgain ==
  /\ mpc = "stopped"
  /\ hist.sdCalls < MaxShutdowns
  /\ mpc' = "sdCleanup"
  /\ hist' = [hist EXCEPT !.sdCalls = @ + 1]
  /\ UNCHANGED <<quietVars, cacheVars, managerVars, bindVars,
                 aliases, bindIP, resolverManager, resolverConfigured,
                 tickerOn, udp, tcp, watcherOn, exitCode, goVars>>

(***************************************************************************)
(* Config.Validate, config.Load and config.Writer                          *)
(***************************************************************************)
\* there is no file at the path
NoFile == [kind |-> "nofile"]

\* a file that yaml.Unmarshal rejects
BadYaml == [kind |-> "unparsable"]

\* a temporary file that os.WriteFile did not finish
Partial == [kind |-> "partial"]

\* a nil *Config
NilConfig == [kind |-> "nil"]

\* the names of the record sets, in the order yaml.Marshal writes map keys
KeyOrder == <<"default", "set1">>

SetNames == {KeyOrder[i] : i \in 1..Len(KeyOrder)}

\* defaultConfig lines 19-31: the record of the default config
DefaultRecord ==
  Record(<<"r", "e", "g", "h", "o", "s", "t", ".", "l", "o", "c", "a", "l">>,
         "127.0.0.1")

CfgRecords == {DefaultRecord, Record(DomDotted, "ip2")}

\* records that Validate rejects: no domain, no ip
BadRecords == {Record(<<>>, "ip1"), Record(DomPlain, "")}

\* a YAML document: the scalar activeRecord and the mapping records as
\* the sequence of its entries
Entry(name, recs) == [name |-> name, recs |-> recs]

Doc(active, entries) == [activeRecord |-> active, records |-> entries]

\* a Config: Records is a Go map, a function of the names it has
Config(active, sets) == [ActiveRecord |-> active, Records |-> sets]

NoSets == [n \in {} |-> <<>>]

\* yaml.Unmarshal into Config (Load line 52): the mapping becomes the map
Unmarshal(doc) ==
  LET names == {doc.records[i].name : i \in 1..Len(doc.records)} IN
  Config(doc.activeRecord,
         [n \in names |->
            doc.records[CHOOSE i \in 1..Len(doc.records) :
                          doc.records[i].name = n].recs])

\* yaml.Marshal of a Config (Write line 31): the keys of the map are
\* written in sorted order
RECURSIVE MarshalFrom(_, _)
MarshalFrom(sets, i) ==
  IF i > Len(KeyOrder) THEN <<>>
  ELSE IF KeyOrder[i] \in DOMAIN sets
  THEN <<Entry(KeyOrder[i], sets[KeyOrder[i]])>> \o MarshalFrom(sets, i + 1)
  ELSE MarshalFrom(sets, i + 1)

Marshal(c) == Doc(c.ActiveRecord, MarshalFrom(c.Records, 1))

\* a nil error
NoError == [err |-> "nil"]

\* Validate lines 35-49 on one record set: the first record with an empty
\* domain or an empty ip, from index i on
RECURSIVE RecordError(_, _, _)
RecordError(name, recs, i) ==
  IF i > Len(recs) THEN NoError
  ELSE IF recs[i].Domain = <<>>
  THEN [err |-> "ErrInvalidRecord", set |-> name, index |-> i - 1,
        reason |-> "domain is empty"]
  ELSE IF recs[i].IP = ""
  THEN [err |-> "ErrInvalidRecord", set |-> name, index |-> i - 1,
        reason |-> "ip is empty"]
  ELSE RecordError(name, recs, i + 1)

\* Validate lines 31-50: the body of the loop over the record sets
SetError(name, recs) ==
  IF Len(recs) = 0 THEN [err |-> "ErrEmptyRecordSet", set |-> name]
  ELSE RecordError(name, recs, 1)

\* ValidatedSets that looks at the active record set only
ValidatedSets_ActiveOnly(c) == {c.ActiveRecord}

\* line 30: the loop ranges over every record set
ValidatedSets(c) == DOMAIN c.Records

\* Validate lines 16-54: what it can return.  The loop ranges over a map,
\* so with several bad record sets the error of any of them can be first
ValidateOutcomes(c) ==
  IF c.ActiveRecord = "" THEN {[err |-> "ErrMissingActiveRecord"]}
  ELSE IF DOMAIN c.Records = {} THEN {[err |-> "ErrNoRecords"]}
  ELSE IF c.ActiveRecord \notin DOMAIN c.Records
  THEN {[err |-> "ErrActiveRecordNotFound"]}
  ELSE LET errs == {SetError(n, c.Records[n]) : n \in ValidatedSets(c)}
                     \ {NoError}
       IN IF errs = {} THEN {NoError} ELSE errs

\* Validate returns nil
Validate(c) == ValidateOutcomes(c) = {NoError}

defaultConfig ==
  Config("default", [n \in {"default"} |-> <<DefaultRecord>>])

\* createDefaultConfig lines 65-85: the default config is written when
\* MkdirAll and WriteFile succeed
createDefaultConfig(createOk) ==
  IF createOk THEN Marshal(defaultConfig) ELSE NoFile

\* Load lines 34-62 on the file: the config it returns, whether it
\* returns an error, and the file it leaves
Load(file, createOk) ==
  IF file = NoFile
  THEN [cfg |-> IF createOk THEN defaultConfig ELSE NilConfig,
        err |-> ~createOk, file |-> createDefaultConfig(createOk)]
  ELSE IF file = BadYaml
  THEN [cfg |-> NilConfig, err |-> TRUE, file |-> file]
  ELSE IF Validate(Unmarshal(file))
  THEN [cfg |-> Unmarshal(file), err |-> FALSE, file |-> file]
  ELSE [cfg |-> NilConfig, err |-> TRUE, file |-> file]

\* WriteChecks that accepts every config
WriteChecks_None(c) == TRUE

\* Write lines 26-28
WriteChecks(c) == Validate(c)

\* Write lines 24-49 of the config c over the file: os.WriteFile of the
\* temporary file, then os.Rename; a failed rename removes the temporary
\* file
Write(c, file, tmp, writeOk, renameOk) ==
  IF ~WriteChecks(c) THEN [err |-> TRUE, file |-> file, tmp |-> tmp]
  ELSE IF ~writeOk THEN [err |-> TRUE, file |-> file, tmp |-> Partial]
  ELSE IF ~renameOk THEN [err |-> TRUE, file |-> file, tmp |-> NoFile]
  ELSE [err |-> FALSE, file |-> Marshal(c), tmp |-> NoFile]

\* m[k] = v on a Go map
Put(sets, k, v) ==
  [n \in (DOMAIN sets) \cup {k} |-> IF n = k THEN v ELSE sets[n]]

\* the changes of the Writer's methods to the config they loaded: the
\* method returns an error of its own (refused), or writes cfg
Refused == [refused |-> TRUE, cfg |-> NilConfig]

Changed(c) == [refused |-> FALSE, cfg |-> c]

\* SetActiveRecord lines 59-65
SetActiveChange(c, name) ==
  IF name \notin DOMAIN c.Records THEN Refused
  ELSE Changed([c EXCEPT !.ActiveRecord = name])

\* Appended that puts the new record first
Appended_First(recs, record) == <<record>> \o recs

\* append(config.Records[recordSetName], record), line 84
Appended(recs, record) == Append(recs, record)

\* AddRecord lines 79-84
AddRecordChange(c, name, record) ==
  LET sets == IF name \in DOMAIN c.Records THEN c.Records
              ELSE Put(c.Records, name, <<>>)
  IN Changed([c EXCEPT !.Records = Put(sets, name,
                                       Appended(sets[name], record))])

\* RemoveRecord lines 98-110; index counts from 0
RemoveChange(c, name, index) ==
  IF name \notin DOMAIN c.Records THEN Refused
  ELSE IF index < 0 \/ index >= Len(c.Records[name]) THEN Refused
  ELSE LET recs == c.Records[name] IN
       Changed([c EXCEPT !.Records =
                  Put(c.Records, name,
                      SubSeq(recs, 1, index) \o
                      SubSeq(recs, index + 2, Len(recs)))])

\* CreateRecordSet lines 124-130
CreateSetChange(c, name) ==
  IF name \in DOMAIN c.Records THEN Refused
  ELSE Changed([c EXCEPT !.Records = Put(c.Records, name, <<>>)])

\* DeletedKeys that deletes nothing
DeletedKeys_None(c, name) == {}

\* delete(config.Records, name), line 150
DeletedKeys(c, name) == {name}

\* DeleteRecordSet lines 144-150
DeleteSetChange(c, name) ==
  IF c.ActiveRecord = name THEN Refused
  ELSE Changed([c EXCEPT !.Records =
                  [n \in (DOMAIN c.Records) \ DeletedKeys(c, name) |->
                     c.Records[n]]])

\* what the file system lets succeed in one call of the Writer
Envs ==
  {[createOk |-> TRUE, writeOk |-> TRUE, renameOk |-> TRUE],
   [createOk |-> FALSE, writeOk |-> TRUE, renameOk |-> TRUE],
   [createOk |-> TRUE, writeOk |-> FALSE, renameOk |-> TRUE],
   [createOk |-> TRUE, writeOk |-> TRUE, renameOk |-> FALSE]}

\* a method of the Writer after its Load: the error of Load or of the
\* method is returned, else the changed config is written
Commit(ld, change, tmp, env) ==
  IF ld.err \/ change.refused
  THEN [err |-> TRUE, file |-> ld.file, tmp |-> tmp]
  ELSE Write(change.cfg, ld.file, tmp, env.writeOk, env.renameOk)

NoWrite ==
  [op |-> "none", name |-> "", record |-> Record(<<>>, ""), index |-> 0,
   err |-> FALSE, before |-> NoFile, loaded |-> NilConfig, count |-> 0,
   io |-> TRUE, valid0 |-> FALSE]

\* the file holds a config that Load accepts
IsValidFile(file) ==
  /\ file \notin {NoFile, BadYaml}
  /\ Validate(Unmarshal(file))

\* history: the Writer's method op has returned r, after Load returned ld,
\* in a file system that behaved as env says; valid0: the file was valid
\* before the first call
Called(op, name, record, index, ld, r, env) ==
  [op |-> op, name |-> name, record |-> record, index |-> index,
   err |-> r.err, before |-> cfgFile, loaded |-> ld.cfg,
   count |-> wlast.count + 1,
   io |-> (env.createOk /\ env.writeOk /\ env.renameOk),
   valid0 |-> IF wlast.count = 0 THEN IsValidFile(cfgFile)
              ELSE wlast.valid0]

cfgFrame ==
  <<matcherVars, readerVars, writerVars, callerVars, reconVars, srvVars,
    linuxVars, reply, sfx, watchVars, getVars>>

\* config.Load lines 34-62, called by reghostd and reghostctl
LoadConfig ==
  /\ wlast.count < MaxOps
  /\ \E env \in Envs :
       LET ld == Load(cfgFile, env.createOk) IN
       /\ cfgFile' = ld.file
       /\ wlast' = Called("Load", "", NoWrite.record, 0, ld, ld, env)
  /\ UNCHANGED <<cfgFrame, tmpFile>>

\* Writer.Write lines 24-49 with a config of the caller
WriteConfig(c) ==
  /\ wlast.count < MaxOps
  /\ \E env \in Envs :
       LET r == Write(c, cfgFile, tmpFile, env.writeOk, env.renameOk) IN
       /\ cfgFile' = r.file
       /\ tmpFile' = r.tmp
       /\ wlast' = Called("Write", "", NoWrite.record, 0, [cfg |-> c], r, env)
  /\ UNCHANGED cfgFrame

\* Writer.SetActiveRecord lines 52-69
SetActiveRecord(name) ==
  /\ wlast.count < MaxOps
  /\ \E env \in Envs :
       LET ld == Load(cfgFile, env.createOk)
           r == Commit(ld, IF ld.err THEN Refused
                           ELSE SetActiveChange(ld.cfg, name), tmpFile, env)
       IN
       /\ cfgFile' = r.file
       /\ tmpFile' = r.tmp
       /\ wlast' = Called("SetActiveRecord", name, NoWrite.record, 0, ld, r, env)
  /\ UNCHANGED cfgFrame

\* Writer.AddRecord lines 72-88
AddRecord(name, record) ==
  /\ wlast.count < MaxOps
  /\ \E env \in Envs :
       LET ld == Load(cfgFile, env.createOk)
           r == Commit(ld, IF ld.err THEN Refused
                           ELSE AddRecordChange(ld.cfg, name, record),
                       tmpFile, env)
       IN
       /\ cfgFile' = r.file
       /\ tmpFile' = r.tmp
       /\ wlast' = Called("AddRecord", name, record, 0, ld, r, env)
  /\ UNCHANGED cfgFrame

\* Writer.RemoveRecord lines 91-114
RemoveRecord(name, index) ==
  /\ wlast.count < MaxOps
  /\ \E env \in Envs :
       LET ld == Load(cfgFile, env.createOk)
           r == Commit(ld, IF ld.err THEN Refused
                           ELSE RemoveChange(ld.cfg, name, index),
                       tmpFile, env)
       IN
       /\ cfgFile' = r.file
       /\ tmpFile' = r.tmp
       /\ wlast' = Called("RemoveRecord", name, NoWrite.record, index, ld, r, env)
  /\ UNCHANGED cfgFrame

\* Writer.CreateRecordSet lines 117-134
CreateRecordSet(name) ==
  /\ wlast.count < MaxOps
  /\ \E env \in Envs :
       LET ld == Load(cfgFile, env.createOk)
           r == Commit(ld, IF ld.err THEN Refused
                           ELSE CreateSetChange(ld.cfg, name), tmpFile, env)
       IN
       /\ cfgFile' = r.file
       /\ tmpFile' = r.tmp
       /\ wlast' = Called("CreateRecordSet", name, NoWrite.record, 0, ld, r, env)
  /\ UNCHANGED cfgFrame

\* Writer.DeleteRecordSet lines 137-154
DeleteRecordSet(name) ==
  /\ wlast.count < MaxOps
  /\ \E env \in Envs :
       LET ld == Load(cfgFile, env.createOk)
           r == Commit(ld, IF ld.err THEN Refused
                           ELSE DeleteSetChange(ld.cfg, name), tmpFile, env)
       IN
       /\ cfgFile' = r.file
       /\ tmpFile' = r.tmp
       /\ wlast' = Called("DeleteRecordSet", name, NoWrite.record, 0, ld, r, env)
  /\ UNCHANGED cfgFrame

\* the config of TestWriter with the names of the model, the same with
\* one record set, and a file written by hand with its keys not in order
GoodDocs ==
  {Doc("default", <<Entry("default", <<DefaultRecord>>),
                    Entry("set1", <<Record(DomDotted, "ip2")>>)>>),
   Doc("default", <<Entry("default", <<DefaultRecord>>)>>),
   Doc("set1", <<Entry("set1", <<Record(DomDotted, "ip2")>>),
                 Entry("default", <<DefaultRecord>>)>>)}

\* files that break one rule of Validate each: no selector, no record
\* set, a selector that names no record set, an empty record set, and a
\* record without domain or without ip in the record set that is not
\* active
BadDocs ==
  {Doc("", <<Entry("default", <<DefaultRecord>>)>>),
   Doc("default", <<>>),
   Doc("set1", <<Entry("default", <<DefaultRecord>>)>>),
   Doc("default", <<Entry("default", <<DefaultRecord>>),
                    Entry("set1", <<>>)>>)}
  \cup {Doc("default", <<Entry("default", <<DefaultRecord>>),
                         Entry("set1", <<r>>)>>) : r \in BadRecords}

\* the configs a caller hands to Write
WriteInputs == {Unmarshal(d) : d \in GoodDocs \cup BadDocs}

\* the indexes a caller hands to RemoveRecord: below, in and above the
\* record sets of the model
IndexInputs == {-1, 0, 1, 3}

(***************************************************************************)
(* The resolver of Linux: /etc/resolv.conf                                 *)
(***************************************************************************)
\* strings.Split(s, "\n") from position i on, cur being the line so far
RECURSIVE SplitLines(_, _, _)
SplitLines(s, i, cur) ==
  IF i > Len(s) THEN <<cur>>
  ELSE IF s[i] = "\n" THEN <<cur>> \o SplitLines(s, i + 1, <<>>)
  ELSE SplitLines(s, i + 1, Append(cur, s[i]))

\* strings.Join(lines, "\n")
RECURSIVE JoinLines(_)
JoinLines(lines) ==
  IF lines = <<>> THEN <<>>
  ELSE IF Len(lines) = 1 THEN lines[1]
  ELSE lines[1] \o <<"\n">> \o JoinLines(Tail(lines))

\* fmt.Sprintf("nameserver %s", s.bindIP), lines 311 and 429
nameserverEntry(ip) == <<"nameserver", " ">> \o ip

\* lines 314-321 and 434-439: some line is the entry once trimmed
HasEntry(lines, ip) ==
  \E i \in 1..Len(lines) : TrimSpace(lines[i]) = nameserverEntry(ip)


\* lines 324-326 and 445-447: the entry, then the lines of the file
EntryPlace(lines, entry) == <<entry>> \o lines

\* lines 310-328 and 432-448: the content that is written when the entry
\* is in no line of content
WithEntry(content, ip) ==
  JoinLines(EntryPlace(SplitLines(content, 1, <<>>), nameserverEntry(ip)))

\* Server.originalResolvConf: nil, or the bytes that were read
NoBackup == [set |-> FALSE, content |-> <<>>]

\* Captured that keeps the content after the entry was put in
Captured_AfterInsert(content, ip) ==
  [set |-> TRUE,
   content |-> IF HasEntry(SplitLines(content, 1, <<>>), ip) THEN content
               ELSE WithEntry(content, ip)]

\* line 306: s.originalResolvConf = content, the output of cat; Output
\* returns a slice that is not nil also when the file is empty
Captured(content, ip) == [set |-> TRUE, content |-> content]

\* TickAborts that goes on with no content when the read failed
TickAborts_Never(catOk) == FALSE

\* lines 424-427: the pass returns when cat failed
TickAborts(catOk) == ~catOk

\* the lines a resolv.conf of the model is made of: the entry of the
\* daemon, the same with blanks around it, the entry of another
\* nameserver, a comment and the empty line
OtherNameserver == <<"nameserver", " ", "8", ".", "8", ".", "8", ".", "8">>

ResolvLines(ip) ==
  {nameserverEntry(ip), <<" ">> \o nameserverEntry(ip) \o <<" ">>,
   OtherNameserver, <<"#">>, <<>>}

\* the files of one line and of two lines
ResolvFiles(ip) ==
  {JoinLines(<<l>>) : l \in ResolvLines(ip)}
  \cup {JoinLines(<<l[1], l[2]>>) : l \in ResolvLines(ip) \X ResolvLines(ip)}

\* the address the daemon gets on Linux in the model
LinuxIP == IP(<<"2">>)

NoLin ==
  [op |-> "none", ok |-> FALSE, read |-> FALSE, wrote |-> FALSE,
   retry |-> FALSE, start |-> <<>>, ticks |-> 0, edits |-> 0,
   before |-> [file |-> <<>>, configured |-> FALSE, backup |-> NoBackup,
               ip |-> NoIP]]

\* what a pass may not change when it is aborted
Snapshot ==
  [file |-> resolvConf, configured |-> resolverConfigured,
   backup |-> originalResolvConf, ip |-> bindIP]

linuxFrame ==
  <<matcherVars, readerVars, writerVars, callerVars, reconVars, cln,
    bindVars, mpc, aliases, resolverManager, udp, tcp, watcherOn, exitCode,
    goVars, hist, cfgVars, reply, sfx, watchVars, getVars>>

\* Start lines 46-52 on Linux: bindLoopbackIP returned an address, or its
\* error ends the daemon
LinuxBind ==
  /\ lpc = "start"
  /\ \E ok \in BOOLEAN :
       IF ok
       THEN /\ bindIP' = LinuxIP
            /\ lpc' = "bound"
       ELSE /\ bindIP' = bindIP
            /\ lpc' = "exited"
  /\ UNCHANGED <<linuxFrame, resolvConf, originalResolvConf, lin,
                 resolverConfigured, tickerOn>>

\* configureLinuxResolver lines 298-341, and Start lines 55-61: its error
\* is logged and the monitor goroutine is started
configureLinuxResolver ==
  /\ lpc = "bound"
  /\ \E catOk, teeOk \in BOOLEAN :
       LET lines == SplitLines(resolvConf, 1, <<>>)
           found == HasEntry(lines, bindIP)
       IN
       /\ originalResolvConf' =
            IF catOk THEN Captured(resolvConf, bindIP) ELSE originalResolvConf
       /\ resolvConf' =
            IF catOk /\ ~found /\ teeOk THEN WithEntry(resolvConf, bindIP)
            ELSE resolvConf
       /\ resolverConfigured' = (catOk /\ (found \/ teeOk))
       /\ lin' = [lin EXCEPT !.op = "configure",
                             !.ok = catOk /\ (found \/ teeOk),
                             !.read = catOk,
                             !.wrote = catOk /\ ~found /\ teeOk,
                             !.start = resolvConf,
                             !.before = Snapshot]
  /\ tickerOn' = TRUE
  /\ lpc' = "running"
  /\ UNCHANGED <<linuxFrame, bindIP>>

\* monitorResolverConfig lines 392-403 and checkAndRestoreLinuxResolver
\* lines 420-458: a tick of the ticker, which nothing stops before the
\* process ends
LinuxTick ==
  /\ lpc \in {"running", "stopped"}
  /\ tickerOn
  /\ lin.ticks < MaxChecks
  /\ IF ~resolverConfigured
     THEN /\ lin' = [lin EXCEPT !.op = "idleTick", !.ticks = @ + 1]
          /\ UNCHANGED resolvConf
     ELSE \E catOk, teeOk \in BOOLEAN :
            LET content == IF catOk THEN resolvConf ELSE <<>>
                found == HasEntry(SplitLines(content, 1, <<>>), bindIP)
                writes == ~TickAborts(catOk) /\ ~found /\ teeOk
            IN
            /\ resolvConf' =
                 IF writes THEN WithEntry(content, bindIP) ELSE resolvConf
            /\ lin' = [lin EXCEPT !.op = "tick",
                                  !.retry = (lin.op = "tick" /\ ~lin.read),
                                  !.ok = catOk /\ (found \/ teeOk),
                                  !.read = catOk,
                                  !.wrote = writes,
                                  !.ticks = @ + 1,
                                  !.before = Snapshot]
  /\ UNCHANGED <<linuxFrame, originalResolvConf, lpc, bindIP,
                 resolverConfigured, tickerOn>>

\* another program (a DHCP client, a VPN) rewrites /etc/resolv.conf
ResolvConfRewritten(content) ==
  /\ lpc \in {"running", "stopped"}
  /\ lin.edits < MaxExternal
  /\ content # resolvConf
  /\ resolvConf' = content
  /\ lin' = [lin EXCEPT !.op = "edit", !.edits = @ + 1,
                        !.before = NoLin.before]
  /\ UNCHANGED <<linuxFrame, originalResolvConf, lpc, bindIP,
                 resolverConfigured, tickerOn>>

\* Shutdown lines 107-112 and cleanupLinuxResolver lines 366-384, after a
\* signal: the content that was read at startup is written back
cleanupLinuxResolver ==
  /\ lpc = "running"
  /\ \E teeOk \in BOOLEAN :
       LET writes == resolverConfigured /\ originalResolvConf.set /\ teeOk
       IN
       /\ resolvConf' =
            IF writes THEN originalResolvConf.content ELSE resolvConf
       /\ lin' = [lin EXCEPT !.op = "cleanup", !.ok = writes,
                             !.read = FALSE, !.wrote = writes,
                             !.before = Snapshot]
  /\ lpc' = "stopped"
  /\ UNCHANGED <<linuxFrame, originalResolvConf, bindIP,
                 resolverConfigured, tickerOn>>

\* main lines 115-120: the process ends, and the ticker with it
LinuxExit ==
  /\ lpc = "stopped"
  /\ lpc' = "exited"
  /\ tickerOn' = FALSE
  /\ lin' = [lin EXCEPT !.op = "exit", !.before = NoLin.before]
  /\ UNCHANGED <<linuxFrame, resolvConf, originalResolvConf, bindIP,
                 resolverConfigured>>

(***************************************************************************)
(* Handler.ServeDNS                                                        *)
(***************************************************************************)
\* the texts net.ParseIP accepts, among the ip fields of the model
IPTexts == {"10.0.0.1", "127.0.0.1"}

NilIP == [addr |-> "", valid |-> FALSE]

\* net.ParseIP (line 54): the address of a text that is one, else nil
ParseIP(ip) == IF ip \in IPTexts THEN [addr |-> ip, valid |-> TRUE] ELSE NilIP

\* the TTL of an answer, line 52
answerTTL == 300

\* lines 47-55: the A record of an answer
AnswerA(name, ip) ==
  [Name |-> name, Rrtype |-> "A", Class |-> "INET", Ttl |-> answerTTL,
   A |-> ParseIP(ip)]

\* m.SetReply(r), lines 27-28: the reply to the questions, with rcode
\* NOERROR and no answer
SetReply(questions) ==
  [made |-> TRUE, question |-> questions, rcode |-> "NOERROR",
   answer |-> <<>>]

NoReply ==
  [made |-> FALSE, question |-> <<>>, rcode |-> "NOERROR", answer |-> <<>>]

Question(name, qtype) == [Name |-> name, Qtype |-> qtype]


\* lines 37-40: a question of another type than A is skipped
AfterNonA(m) == m

\* lines 31-61: the loop over the questions from question i on, m being
\* the reply so far
RECURSIVE Questions(_, _, _, _)
Questions(recs, cache, m, i) ==
  IF i > Len(m.question) THEN m
  ELSE LET q == m.question[i]
           res == Match(recs, cache, ToLower(q.Name))
       IN IF q.Qtype # "A" THEN Questions(recs, cache, AfterNonA(m), i + 1)
          ELSE IF res.found
          THEN Questions(recs, cache,
                         [m EXCEPT !.answer =
                            Append(@, AnswerA(q.Name, res.ip))], i + 1)
          ELSE Questions(recs, cache, [m EXCEPT !.rcode = "NXDOMAIN"], i + 1)

\* the records of the daemons that serve: a literal and a regex with
\* addresses, and a literal whose ip field is a host name
ServeLists ==
  {<<Record(DomLiteral, "10.0.0.1"), Record(DomRegex, "127.0.0.1")>>,
   <<Record(DomPlain, "localhost")>>,
   <<Record(DomDotted, "10.0.0.1"), Record(DomPlain, "127.0.0.1")>>,
   <<Record(DomRegex, "10.0.0.1")>>,
   <<>>}

ServeNames == {DomLiteral, ToUpper(DomLiteral), <<"b", ".", "c", ".">>,
               DomPlain, <<"c">>}

Qtypes == {"A", "AAAA", "MX"}

\* the messages of the model: one question, or two
ServeMessages ==
  {<<Question(n, t)>> : n \in ServeNames, t \in Qtypes}
  \cup {<<Question(n, "A"), Question(DomPlain, t)>> :
          n \in ServeNames, t \in {"A", "AAAA"}}

\* ServeDNS lines 26-67 on the message with these questions: the reply
\* that is written
ServeDNS(questions) ==
  /\ reply' = Questions(records, regexCache, SetReply(questions), 1)
  /\ UNCHANGED <<matcherVars, readerVars, writerVars, callerVars, reconVars,
                 srvVars, linuxVars, cfgVars, sfx, watchVars, getVars>>

\* no call of extractSuffix yet
NoSuffix == [made |-> FALSE, pattern |-> <<>>, suffix |-> <<>>]

\* the watcher before the first event
NoWatch ==
  [op |-> "none", edits |-> 0, seen |-> 0, open |-> 0, begun |-> 0,
   failed |-> 0, tableFirst |-> TRUE, closed |-> FALSE,
   before |-> [records |-> <<>>, cache |-> EmptyCache, updates |-> 0,
               passes |-> 0, managed |-> {}, files |-> AllAbsent]]

\* the state of the watcher and of the readers' other methods when a
\* specification leaves them out
InitLate ==
  /\ sfx = NoSuffix
  /\ events = <<>>
  /\ wtc = "off"
  /\ wnew = <<>>
  /\ whist = NoWatch
  /\ rop = [r \in Readers |-> "none"]
  /\ rcopy = [r \in Readers |-> <<>>]

\* the state of the parts of the program a specification leaves out
InitExt ==
  /\ resolvConf = <<>>
  /\ originalResolvConf = NoBackup
  /\ lpc = "off"
  /\ lin = NoLin
  /\ cfgFile = NoFile
  /\ tmpFile = NoFile
  /\ wlast = NoWrite
  /\ reply = NoReply
  /\ InitLate

(***************************************************************************)
(* Manager.extractSuffix on the patterns of a config, one call at a time.  *)
(***************************************************************************)
\* "^" or nothing before the pattern
PatAnchors == {<<>>, <<"^">>}

\* what stands before the last label: nothing, labels with a separator,
\* the character class of the README's pattern with its quantifier, a
\* group with alternatives, a quantified group, a quantified letter
PatHeads ==
  {<<>>,
   <<"a", "p", "i", ".", "e", "x", "a", "m", "p", "l", "e", ".">>,
   <<"[", "a", "-", "z", "A", "-", "Z", "0", "-", "9", "-", "]", "+",
     "\\", ".">>,
   <<"(", "a", "p", "i", "|", "w", "e", "b", ")", "\\", ".">>,
   <<"(", "a", ".", ")", "*">>,
   <<"a", "?", "b", "*", "\\", ".">>}

PatLabels ==
  {<<"m", "y", "h", "o", "s", "t">>, <<"c", "o", "m">>,
   <<"l", "o", "c", "a", "l">>}

\* what stands after the last label: nothing, a separator as it is or
\* escaped, "$", and their combinations
PatTails ==
  {<<>>, <<".">>, <<"$">>, <<"\\", ".">>, <<".", "$">>, <<"\\", ".", "$">>,
   <<"\\", ".", "?", "$">>}

PatternOf(anchor, head, label, tail) == anchor \o head \o label \o tail

\* the pattern has regex syntax: a character out of letters and "."
HasSyntax(p) ==
  \E i \in 1..Len(p) :
    p[i] \in {"^", "$", "\\", "[", "]", "(", ")", "|", "+", "*", "?"}

\* the domain patterns given to extractSuffix: literal names, and regular
\* expressions, which start with "^" (compilePatterns line 32)
SuffixPatterns ==
  {p \in {PatternOf(a, h, l, t) :
            a \in PatAnchors, h \in PatHeads, l \in PatLabels,
            t \in PatTails} :
     HasSyntax(p) => Head(p) = "^"}

\* extractDomainSuffixes line 316: suffix := m.extractSuffix(domain)
ExtractSuffix(pattern) ==
  /\ sfx' = [made |-> TRUE, pattern |-> pattern,
             suffix |-> extractSuffix(pattern)]
  /\ UNCHANGED <<matcherVars, readerVars, writerVars, callerVars, reconVars,
                 srvVars, linuxVars, cfgVars, reply, watchVars, getVars>>

(***************************************************************************)
(* The daemon: main with its goroutines, the OS and the other programs.    *)
(***************************************************************************)
InitDaemon ==
  /\ \E recs \in DaemonLists : NewMatcher(recs) /\ InitWriter(recs)
  /\ InitReaders
  /\ InitCaller
  /\ NewManager
  /\ NewServer
  /\ InitExt
  /\ files = AllAbsent
  /\ dirExists = FALSE
  /\ aliases \in SUBSET (Candidates \ {Loopback1})

NextDaemon ==
  \/ Start
  \/ bindLoopbackIP
  \/ StartBindFailed
  \/ StartBound
  \/ ConfigureDone
  \/ StartListeners
  \/ NewWatcher
  \/ MonitorTick
  \/ MonitorPassDone
  \/ \E recs \in DaemonLists : Reload(recs)
  \/ ReloadPassDone
  \/ FatalMapAccess
  \/ Signal
  \/ ShutdownCleanup
  \/ ShutdownCleanupDone
  \/ ShutdownServers
  \/ ShutdownRelease
  \/ MainExit
  \/ \E suffix \in managedDomains :
       \E content \in {"absent", "wrong"} :
         alive /\ Inside = {} /\ ExternalChange(suffix, content)

SpecDaemon == InitDaemon /\ [][NextDaemon]_vars

\* the startup of the daemon alone, up to the watcher
NextStart ==
  \/ Start
  \/ bindLoopbackIP
  \/ StartBindFailed
  \/ StartBound
  \/ ConfigureDone
  \/ StartListeners
  \/ NewWatcher

SpecStart == InitDaemon /\ [][NextStart]_vars

\* the Server used by any program: Shutdown may be called again
NextServer ==
  \/ NextDaemon
  \/ ShutdownAgain

SpecServer == InitDaemon /\ [][NextServer]_vars

(***************************************************************************)
(* The daemon on Linux: Start, the monitor, the other programs that write  *)
(* /etc/resolv.conf, and Shutdown.                                         *)
(***************************************************************************)
InitLinux ==
  /\ NewMatcher(<<>>) /\ InitWriter(<<>>)
  /\ InitReaders
  /\ InitCaller
  /\ NewManager
  /\ NewServer
  /\ aliases = {}
  /\ files = AllAbsent
  /\ dirExists = FALSE
  /\ resolvConf \in ResolvFiles(LinuxIP)
  /\ originalResolvConf = NoBackup
  /\ lpc = "start"
  /\ lin = NoLin
  /\ cfgFile = NoFile
  /\ tmpFile = NoFile
  /\ wlast = NoWrite
  /\ reply = NoReply
  /\ InitLate

NextLinux ==
  \/ LinuxBind
  \/ configureLinuxResolver
  \/ LinuxTick
  \/ \E content \in ResolvFiles(LinuxIP) : ResolvConfRewritten(content)
  \/ cleanupLinuxResolver
  \/ LinuxExit

SpecLinux == InitLinux /\ [][NextLinux]_vars

(***************************************************************************)
(* The config file under config.Load and the methods of config.Writer.     *)
(***************************************************************************)
InitConfig ==
  /\ NewMatcher(<<>>) /\ InitWriter(<<>>)
  /\ InitReaders
  /\ InitCaller
  /\ NewManager
  /\ NewServer
  /\ aliases = {}
  /\ files = AllAbsent
  /\ dirExists = FALSE
  /\ resolvConf = <<>>
  /\ originalResolvConf = NoBackup
  /\ lpc = "off"
  /\ lin = NoLin
  /\ cfgFile \in GoodDocs \cup BadDocs \cup {NoFile, BadYaml}
  /\ tmpFile = NoFile
  /\ wlast = NoWrite
  /\ reply = NoReply
  /\ InitLate

NextConfig ==
  \/ LoadConfig
  \/ \E c \in WriteInputs : WriteConfig(c)
  \/ \E name \in SetNames : SetActiveRecord(name)
  \/ \E name \in SetNames : \E record \in CfgRecords \cup BadRecords :
       AddRecord(name, record)
  \/ \E name \in SetNames : \E index \in IndexInputs :
       RemoveRecord(name, index)
  \/ \E name \in SetNames : CreateRecordSet(name)
  \/ \E name \in SetNames : DeleteRecordSet(name)

SpecConfig == InitConfig /\ [][NextConfig]_vars

(***************************************************************************)
(* The handler of the DNS server over the records of the cache.            *)
(***************************************************************************)
InitServe ==
  /\ \E recs \in ServeLists : NewMatcher(recs) /\ InitWriter(recs)
  /\ InitReaders
  /\ InitCaller
  /\ NewManager
  /\ NewServer
  /\ InitExt
  /\ aliases = {}
  /\ files = AllAbsent
  /\ dirExists = FALSE

NextServe == \E questions \in ServeMessages : ServeDNS(questions)

SpecServe == InitServe /\ [][NextServe]_vars

(***************************************************************************)
(* The config watcher: Watcher.watch with the reload callback of reghostd. *)
(***************************************************************************)
MaxEvents == 3

\* the bits of fsnotify.Op the loop tells apart: Write or Create of the
\* config file, and everything else (another file of the directory, or
\* Remove, Rename, Chmod)
EventKinds == {"write", "other"}

\* config files whose active records yield hint files of the model
WatchGood ==
  {Doc("default", <<Entry("default", <<Record(DomPlain, "ip1")>>)>>),
   Doc("set1", <<Entry("default", <<Record(DomPlain, "ip1")>>),
                 Entry("set1", <<Record(DomDotted, "ip2")>>)>>),
   Doc("default", <<Entry("default", <<Record(DomDotted, "ip1"),
                                       Record(DomRegex, "ip2")>>)>>)}

\* files that yaml.Unmarshal or Validate rejects
WatchBad ==
  {BadYaml,
   Doc("set1", <<Entry("default", <<Record(DomPlain, "ip1")>>)>>),
   Doc("default", <<Entry("default", <<Record(DomDotted, "")>>)>>)}

\* Config.GetActiveRecords: the record set the selector names
GetActiveRecords(c) ==
  IF c.ActiveRecord \in DOMAIN c.Records THEN c.Records[c.ActiveRecord]
  ELSE <<>>

\* what a failed reload may not touch
WatchState ==
  [records |-> records, cache |-> regexCache, updates |-> updCount,
   passes |-> passCount, managed |-> managedDomains, files |-> files]

\* watch line 58: the loop receives when it waits in the select
CanTakeEvent_Always(pos) == pos # "off"

CanTakeEvent(pos) == pos = "select"

\* watch lines 72-74: the error of reloadConfig is logged and the loop
\* goes on
AfterReloadError_Stop == "stopped"

AfterReloadError == "select"

watchFrame ==
  <<cacheMu, matcherMu, readerVars, wpc, wrecs, wi, callerVars,
    ppc, ptodo, pnew, pchg, prem, perr, pass, last, drift, extCount,
    srvVars, linuxVars, tmpFile, wlast, reply, sfx, getVars>>

\* another program writes the config file: fsnotify queues the event
FileEvent(doc) ==
  /\ wtc # "off"
  /\ ~whist.closed
  /\ whist.edits < MaxEvents
  /\ cfgFile' = doc
  /\ events' = Append(events, "write")
  /\ whist' = [whist EXCEPT !.edits = @ + 1]
  /\ UNCHANGED <<records, regexCache, committed, updCount, managerVars,
                 passCount, wtc, wnew, watchFrame>>

\* an event the loop does not reload on
OtherEvent ==
  /\ wtc # "off"
  /\ ~whist.closed
  /\ whist.edits < MaxEvents
  /\ events' = Append(events, "other")
  /\ whist' = [whist EXCEPT !.edits = @ + 1]
  /\ UNCHANGED <<records, regexCache, committed, updCount, managerVars,
                 passCount, cfgFile, wtc, wnew, watchFrame>>

\* watch lines 59-75 and reloadConfig lines 87-93: the loop receives an
\* event of the config file, reloads it, and enters the callback when
\* Load returned no error
WatchEvent ==
  /\ CanTakeEvent(wtc)
  /\ ~whist.closed
  /\ events # <<>>
  /\ Head(events) = "write"
  /\ events' = Tail(events)
  /\ LET ld == Load(cfgFile, TRUE) IN
       IF ld.err
       THEN /\ wtc' = AfterReloadError
            /\ wnew' = wnew
            /\ whist' = [whist EXCEPT !.op = "failed", !.seen = @ + 1,
                                      !.failed = @ + 1,
                                      !.before = WatchState]
       ELSE /\ wtc' = "update"
            /\ wnew' = GetActiveRecords(ld.cfg)
            /\ whist' = [whist EXCEPT !.op = "loaded", !.seen = @ + 1,
                                      !.open = @ + 1, !.begun = @ + 1]
  /\ UNCHANGED <<records, regexCache, committed, updCount, managerVars,
                 passCount, cfgFile, watchFrame>>

\* watch lines 65-70: an event for another file or another operation
WatchSkip ==
  /\ wtc = "select"
  /\ ~whist.closed
  /\ events # <<>>
  /\ Head(events) = "other"
  /\ events' = Tail(events)
  /\ whist' = [whist EXCEPT !.op = "skipped", !.seen = @ + 1]
  /\ UNCHANGED <<records, regexCache, committed, updCount, managerVars,
                 passCount, cfgFile, wtc, wnew, watchFrame>>

\* watch lines 77-82: an error of fsnotify is logged
WatchError ==
  /\ wtc = "select"
  /\ ~whist.closed
  /\ whist.op # "error"
  /\ whist' = [whist EXCEPT !.op = "error"]
  /\ UNCHANGED <<records, regexCache, committed, updCount, managerVars,
                 passCount, cfgFile, events, wtc, wnew, watchFrame>>

\* the callback, main.go lines 81-82: cache.Update(newRecords)
CallbackUpdate ==
  /\ wtc = "update"
  /\ records' = wnew
  /\ regexCache' = compilePatterns(wnew, 1, EmptyCache)
  /\ committed' = wnew
  /\ updCount' = updCount + 1
  /\ wtc' = "reconcile"
  /\ UNCHANGED <<managerVars, passCount, cfgFile, events, wnew, whist,
                 watchFrame>>

\* the callback, main.go lines 85-90: server.UpdateResolverFiles, whose
\* error is logged, then the return to the select
CallbackReconcile ==
  /\ wtc = "reconcile"
  /\ \E mkdirOk \in BOOLEAN :
     \E failW \in SUBSET extractDomainSuffixes(wnew) :
     \E failR \in SUBSET managedDomains :
       LET r == RunPass(managedDomains, files, dirExists,
                        extractDomainSuffixes(wnew), mkdirOk, failW, failR)
       IN /\ managedDomains' = r.managed
          /\ files' = r.files
          /\ dirExists' = r.dir
  /\ passCount' = passCount + 1
  /\ wtc' = "select"
  /\ whist' = [whist EXCEPT !.op = "applied", !.open = @ - 1,
                            !.tableFirst = @ /\ (records = wnew)]
  /\ UNCHANGED <<records, regexCache, committed, updCount, cfgFile, events,
                 wnew, watchFrame>>

\* Close line 105, deferred by main: fsnotify closes its channels
CloseWatcher ==
  /\ wtc # "off"
  /\ ~whist.closed
  /\ whist' = [whist EXCEPT !.closed = TRUE]
  /\ events' = <<>>
  /\ UNCHANGED <<records, regexCache, committed, updCount, managerVars,
                 passCount, cfgFile, wtc, wnew, watchFrame>>

\* watch lines 60-62: the channel is closed and the goroutine returns
WatchReturn ==
  /\ wtc = "select"
  /\ whist.closed
  /\ wtc' = "stopped"
  /\ UNCHANGED <<records, regexCache, committed, updCount, managerVars,
                 passCount, cfgFile, events, wnew, whist, watchFrame>>

\* reghostd after startup: the records of the config file are in the
\* cache, the startup pass has run, and the watcher waits
InitWatch ==
  /\ cfgFile \in WatchGood
  /\ NewMatcher(GetActiveRecords(Unmarshal(cfgFile)))
  /\ InitWriter(GetActiveRecords(Unmarshal(cfgFile)))
  /\ InitReaders
  /\ InitCaller
  /\ \E mkdirOk \in BOOLEAN :
       LET r == RunPass({}, AllAbsent, FALSE,
                        extractDomainSuffixes(
                          GetActiveRecords(Unmarshal(cfgFile))),
                        mkdirOk, {}, {})
       IN /\ managedDomains = r.managed
          /\ files = r.files
          /\ dirExists = r.dir
          /\ resolverConfigured = ~r.err
  /\ ppc = "idle" /\ ptodo = {} /\ pnew = {} /\ pchg = FALSE
  /\ prem = {} /\ perr = FALSE /\ pass = NoPass /\ last = NoLast
  /\ drift = FALSE /\ extCount = 0 /\ passCount = 0
  /\ cln = NoClean /\ mpc = "running" /\ attempt = 0 /\ tried = 0
  /\ probe = NoProbe /\ bindIP = Loopback1 /\ resolverManager = TRUE
  /\ tickerOn = TRUE /\ udp = "serving" /\ tcp = "serving" /\ watcherOn = TRUE
  /\ gpc = [g \in Goroutines |-> "idle"]
  /\ gsuf = [g \in Goroutines |-> {}]
  /\ raced = [g \in Goroutines |-> FALSE]
  /\ exitCode = -1 /\ hist = NoHist
  /\ aliases = {Loopback1}
  /\ resolvConf = <<>>
  /\ originalResolvConf = NoBackup
  /\ lpc = "off"
  /\ lin = NoLin
  /\ tmpFile = NoFile
  /\ wlast = NoWrite
  /\ reply = NoReply
  /\ sfx = NoSuffix
  /\ events = <<>>
  /\ wtc = "select"
  /\ wnew = <<>>
  /\ whist = NoWatch
  /\ rop = [r \in Readers |-> "none"]
  /\ rcopy = [r \in Readers |-> <<>>]

NextWatch ==
  \/ \E doc \in WatchGood \cup WatchBad : FileEvent(doc)
  \/ OtherEvent
  \/ WatchEvent
  \/ WatchSkip
  \/ WatchError
  \/ CallbackUpdate
  \/ CallbackReconcile
  \/ CloseWatcher
  \/ WatchReturn

SpecWatch == InitWatch /\ [][NextWatch]_vars

(***************************************************************************)
(* extractSuffix alone, on every pattern of the model.                     *)
(***************************************************************************)
InitSuffix ==
  /\ NewMatcher(<<>>) /\ InitWriter(<<>>)
  /\ InitReaders
  /\ InitCaller
  /\ NewManager
  /\ NewServer
  /\ InitExt
  /\ aliases = {}
  /\ files = AllAbsent
  /\ dirExists = FALSE

NextSuffix == \E pattern \in SuffixPatterns : ExtractSuffix(pattern)

SpecSuffix == InitSuffix /\ [][NextSuffix]_vars

(***************************************************************************)
(* The manager alone: reconciliation passes one after the other, over any  *)
(* record lists, with OS failures and outside changes of the hint files.   *)
(***************************************************************************)
InitRecon ==
  /\ NewMatcher(<<>>) /\ InitWriter(<<>>)
  /\ InitReaders
  /\ InitCaller
  /\ NewManager
  /\ NewServer
  /\ InitExt
  /\ aliases = {}
  /\ files = AllAbsent
  /\ dirExists \in BOOLEAN

NextRecon ==
  \/ \E recs \in ReconLists : UpdateResolverFiles(recs)
  \/ ensureResolverDir
  \/ CreateLoop
  \/ CreateLoopEnd
  \/ RemoveLoop
  \/ RemoveLoopEnd
  \/ Returned
  \/ CleanupAll
  \/ CleanupReturned
  \/ \E suffix \in SuffixUniverse :
       \E content \in {"absent", "wrong"} : ExternalChange(suffix, content)

SpecRecon == InitRecon /\ [][NextRecon]_vars

(***************************************************************************)
(* The concurrent matcher: the Lookup goroutines against Update.           *)
(***************************************************************************)
InitMatch ==
  /\ \E recs \in ConcLists : NewMatcher(recs) /\ InitWriter(recs)
  /\ InitReaders
  /\ InitCaller
  /\ NewManager
  /\ NewServer
  /\ InitExt
  /\ aliases = {}
  /\ files = AllAbsent
  /\ dirExists = FALSE

NextMatch ==
  \/ \E r \in Readers : \E q \in ConcQueries : Lookup(r, q)
  \/ \E r \in Readers : LookupRLock(r)
  \/ \E r \in Readers : MatchRLock(r)
  \/ \E r \in Readers : MatchIter(r)
  \/ \E r \in Readers : MatchReturn(r)
  \/ \E r \in Readers : LookupDone(r)
  \/ \E recs \in ConcLists : Update(recs)
  \/ UpdateCacheLock
  \/ UpdateMatcherLock
  \/ UpdateSetRecords
  \/ UpdateResetCache
  \/ UpdateCompile
  \/ UpdateReturn

SpecMatch == InitMatch /\ [][NextMatch]_vars

(***************************************************************************)
(* The two locks under every interleaving of Lookup, GetRecords,           *)
(* GetDomains and Update.  The Go scheduler runs every goroutine that can  *)
(* take a step, and a goroutine that waits for a mutex is woken when the   *)
(* mutex can be acquired.                                                  *)
(***************************************************************************)
LockLists == {<<>>, <<Record(DomRegex, "ip2")>>}

LockQueries == {<<"a", ".", "c">>}

InitLocks ==
  /\ \E recs \in LockLists : NewMatcher(recs) /\ InitWriter(recs)
  /\ InitReaders
  /\ InitCaller
  /\ NewManager
  /\ NewServer
  /\ InitExt
  /\ aliases = {}
  /\ files = AllAbsent
  /\ dirExists = FALSE

NextLocks ==
  \/ \E r \in Readers : \E q \in LockQueries : Lookup(r, q)
  \/ \E r \in Readers : LookupRLock(r)
  \/ \E r \in Readers : MatchRLock(r)
  \/ \E r \in Readers : MatchIter(r)
  \/ \E r \in Readers : MatchReturn(r)
  \/ \E r \in Readers : LookupDone(r)
  \/ \E r \in Readers : \E method \in GetMethods : Get(r, method)
  \/ \E r \in Readers : GetCacheRLock(r)
  \/ \E r \in Readers : GetCopy(r)
  \/ \E r \in Readers : GetReturn(r)
  \/ \E r \in Readers : GetDone(r)
  \/ \E recs \in LockLists : Update(recs)
  \/ UpdateCacheLock
  \/ UpdateMatcherLock
  \/ UpdateSetRecords
  \/ UpdateResetCache
  \/ UpdateCompile
  \/ UpdateReturn

\* a step of a call in progress of goroutine r
ReaderStep(r) ==
  \/ LookupRLock(r) \/ MatchRLock(r) \/ MatchIter(r) \/ MatchReturn(r)
  \/ LookupDone(r) \/ GetCacheRLock(r) \/ GetCopy(r) \/ GetReturn(r)
  \/ GetDone(r)

\* a step of the Update in progress
WriterStep ==
  \/ UpdateCacheLock \/ UpdateMatcherLock \/ UpdateSetRecords
  \/ UpdateResetCache \/ UpdateCompile \/ UpdateReturn

SpecLocks ==
  /\ InitLocks /\ [][NextLocks]_vars
  /\ \A r \in Readers : WF_vars(ReaderStep(r))
  /\ WF_vars(WriterStep)

(***************************************************************************)
(* The sequential caller: a resolver built from any record list, queried   *)
(* by one goroutine (reghost.NewResolver(records).Resolve(name)).          *)
(***************************************************************************)
\* ip, found := resolver.Resolve(q)
Resolve(q) ==
  /\ call' = [q |-> q, res |-> Match(records, regexCache, q), made |-> TRUE]
  /\ UNCHANGED <<matcherVars, readerVars, writerVars, forms, reconVars, srvVars,
                 extVars>>

\* Resolve(d), Resolve(d + ".") and Resolve(strings.ToUpper(d))
ResolveForms(d) ==
  /\ forms' = [d |-> d,
               plain |-> Match(records, regexCache, d),
               dotted |-> Match(records, regexCache, Append(d, ".")),
               upper |-> Match(records, regexCache, ToUpper(d)),
               made |-> TRUE]
  /\ UNCHANGED <<matcherVars, readerVars, writerVars, call, reconVars, srvVars,
                 extVars>>

InitResolve ==
  /\ \E recs \in AllLists : NewMatcher(recs) /\ InitWriter(recs)
  /\ InitReaders
  /\ InitCaller
  /\ NewManager
  /\ NewServer
  /\ InitExt
  /\ aliases = {}
  /\ files = AllAbsent
  /\ dirExists = FALSE

NextResolve ==
  \/ \E q \in Queries : Resolve(q)
  \/ \E d \in LiteralDomains : ResolveForms(d)

SpecResolve == InitResolve /\ [][NextResolve]_vars

(***************************************************************************)
(* What the claims say Resolve returns, stated on a record list alone.     *)
(***************************************************************************)
\* the record matches the normalised name exactly, or by its regex when
\* its pattern starts with "^" and compiles
Matches(rec, name) ==
  \/ Normalize(rec.Domain) = name
  \/ /\ HasPrefix(rec.Domain, <<"^">>)
     /\ Compile(rec.Domain).ok
     /\ MatchString(Compile(rec.Domain).toks, name)

MatchingIdx(list, name) == {i \in 1..Len(list) : Matches(list[i], name)}

Lowest(S) == CHOOSE i \in S : \A j \in S : i <= j

\* the IP of the lowest-index record that matches, or not found
Resolved(list, q) ==
  LET S == MatchingIdx(list, Normalize(q)) IN
  IF S = {} THEN NotFound ELSE Found(list[Lowest(S)].IP)

IsLiteralOf(d, list) ==
  /\ ~HasPrefix(d, <<"^">>)
  /\ \E i \in 1..Len(list) : list[i].Domain = d

(***************************************************************************)
(* Claims                                                                  *)
(***************************************************************************)
\* C1: a Lookup that overlaps an Update returns the answer of the whole old
\* list with its patterns or of the whole new list with its patterns: the
\* answer of one of the lists it could have seen, never of a mix.
C1_UpdateAtomic ==
  \A r \in Readers :
    rpc[r] = "done" =>
      \E l \in rcand[r] : rres[r] = Resolved(l, rq[r])

\* C1 witness: a Lookup that overlapped an Update whose list answers the
\* name differently has returned.
C1_Witness ==
  \E r \in Readers :
    /\ rpc[r] = "done"
    /\ ~rquiet[r]
    /\ \E l1, l2 \in rcand[r] : Resolved(l1, rq[r]) # Resolved(l2, rq[r])

\* C2: Resolve returns the IP of the lowest-index record that matches the
\* normalised name, exactly or by its compiled regex; of a literal and a
\* regex that both match, the one declared first wins.
C2_FirstMatchWins ==
  call.made => call.res = Resolved(records, call.q)

\* C2 witness: a regex declared before a literal, both matching the name,
\* with different IPs, and Resolve returned the regex' IP.
C2_Witness ==
  /\ call.made
  /\ Len(records) = 2
  /\ records[1].Domain = DomRegex
  /\ records[2].Domain = DomLiteral
  /\ MatchingIdx(records, Normalize(call.q)) = {1, 2}
  /\ records[1].IP # records[2].IP
  /\ call.res = Found(records[1].IP)

\* C3 as stated: for every literal record domain D, Resolve(D),
\* Resolve(D + ".") and Resolve(uppercase(D)) return the same result.
C3_Original ==
  (forms.made /\ IsLiteralOf(forms.d, records)) =>
    /\ forms.plain = forms.dotted
    /\ forms.plain = forms.upper

\* C3 amended: for every literal record domain D, Resolve(D) and
\* Resolve(uppercase(D)) return the same result, and Resolve(D + ".")
\* returns it too when D does not already end with a dot.
C3_NormalisedForms ==
  (forms.made /\ IsLiteralOf(forms.d, records)) =>
    /\ forms.plain = forms.upper
    /\ ~HasSuffix(forms.d, <<".">>) => forms.plain = forms.dotted

\* C3 witness: the three forms of the literal "A.c" of the list were
\* resolved and found.
C3_Witness ==
  /\ forms.made
  /\ forms.d = DomLiteral
  /\ IsLiteralOf(forms.d, records)
  /\ forms.plain.found
  /\ forms.plain = forms.dotted
  /\ forms.plain = forms.upper

\* C4: for a name that no record matches exactly or by regex, Resolve
\* returns exactly ("", false), also on the empty list.
C4_NoMatchNotFound ==
  (call.made /\ MatchingIdx(records, Normalize(call.q)) = {}) =>
    call.res = [ip |-> "", found |-> FALSE]

\* C4 witness: a name that no record of a non-empty list matches was
\* resolved, and a name was resolved against the empty list.
C4_Witness ==
  /\ call.made
  /\ Len(records) > 0
  /\ MatchingIdx(records, Normalize(call.q)) = {}
  /\ call.res = NotFound

\* C5: a Lookup called after Update(newRecords) returned, with no other
\* Update since, is answered from newRecords only.
C5_AfterUpdate ==
  \A r \in Readers :
    (rpc[r] = "done" /\ rquiet[r] /\ rstart[r] >= 1) =>
      \A l \in rcand[r] : rres[r] = Resolved(l, rq[r])

\* C5 witness: after an Update returned, a Lookup of a name that only the
\* regex record of the new list matches returned that record's IP.
C5_Witness ==
  \E r \in Readers :
    /\ rpc[r] = "done"
    /\ rquiet[r]
    /\ rstart[r] >= 1
    /\ rcand[r] = {committed}
    /\ \E i \in 1..Len(committed) :
         /\ committed[i].Domain = DomRegex
         /\ MatchingIdx(committed, Normalize(rq[r])) = {i}
         /\ Normalize(committed[i].Domain) # Normalize(rq[r])
         /\ rres[r] = Found(committed[i].IP)

\* the call before the one in progress returned nil and none of its
\* writes or removals failed
LastSucceeded ==
  last.valid /\ ~last.err /\ last.failW = {} /\ last.failR = {}

\* no tee, rm or mkdir failed in the call in progress
NoOSFailure == ~perr /\ pass.failW = {} /\ pass.failR = {}

\* C6: a second UpdateResolverFiles over the same records, after a call
\* that fully succeeded and with no outside change of the hint files in
\* between, writes no file, removes none, does not flush, and leaves
\* managedDomains as the first call left it.
C6_SecondCallNoOp ==
  (ppc = "returned" /\ LastSucceeded /\ last.suf = pass.suf /\ pass.clean) =>
    /\ pass.written = {} /\ pass.failW = {}
    /\ pass.removed = {} /\ pass.failR = {}
    /\ pass.flushes = 0
    /\ managedDomains = pass.man0
    /\ ~perr

\* C6 witness: such a second call over a non-empty suffix set returned,
\* having found every hint file correct.
C6_Witness ==
  /\ ppc = "returned"
  /\ LastSucceeded
  /\ last.suf = pass.suf
  /\ pass.clean
  /\ pass.suf # {}
  /\ pass.verified = pass.suf
  /\ managedDomains = pass.suf

C8_FlushIffChanged ==
  ppc = "returned" =>
    pass.flushes = (IF pass.written \cup pass.removed # {} THEN 1 ELSE 0)

\* C9: a failed write or removal does not abort the pass: it returns no
\* error, every suffix of the current set is written or verified unless
\* its own write failed, and every managed suffix that is not in the
\* current set is removed unless its own removal failed.
C9_FailureDoesNotAbort ==
  ppc = "returned" =>
    /\ (pass.failW \cup pass.failR # {}) => ~perr
    /\ (~perr /\ pass.suf # {}) =>
         /\ pass.suf = pass.written \cup pass.verified \cup pass.failW
         /\ \A s \in pass.suf \ pass.failW : files[s] = "correct"
         /\ \A d \in pass.man0 \ pass.suf : d \in pass.removed \cup pass.failR
         /\ \A d \in (pass.man0 \ pass.suf) \ pass.failR : files[d] = "absent"

\* C9 witness: a pass in which one write failed returned after it wrote
\* another suffix and removed a stale one.
C9_Witness ==
  /\ ppc = "returned"
  /\ ~perr
  /\ pass.failW # {}
  /\ pass.written # {}
  /\ pass.removed # {}

\* C10: a suffix whose write or removal failed in one pass is attempted
\* again in the next pass over the same records: the write is attempted
\* again, and the removal is attempted again.
C10_FailureRetried ==
  (ppc = "returned" /\ last.valid /\ ~last.err /\ last.suf = pass.suf
     /\ ~perr) =>
    /\ last.failW \subseteq pass.written \cup pass.failW
    /\ last.failR \subseteq pass.removed \cup pass.failR

\* C11: when CleanupAll has returned GetManagedDomains is empty, whatever
\* the map held and whichever removals failed; a CleanupAll that follows a
\* CleanupAll tries and removes no hint file and leaves the set empty.
C11_CleanupEmpties ==
  ppc = "cleaned" =>
    /\ GetManagedDomains = {}
    /\ cln.again => (cln.tried = {} /\ cln.removed = {})

\* C11 witness: a CleanupAll in which a removal failed was followed by a
\* second CleanupAll, which has returned.
C11_Witness ==
  /\ ppc = "cleaned"
  /\ cln.again
  /\ cln.failedBefore
  /\ GetManagedDomains = {}

\* C12: the address bindLoopbackIP returns is not 127.0.0.1, the probe of
\* that attempt did not report it in use, and its alias-add succeeded.
C12_BoundAddress ==
  mpc = "bound" =>
    /\ probe.ip # Loopback1
    /\ ~probe.inUse
    /\ probe.added
    /\ probe.ip \in aliases

\* C12 witness: bindLoopbackIP returned an address after it had rejected
\* other candidates.
C12_Witness ==
  /\ mpc = "bound"
  /\ tried >= 3
  /\ probe.ip \in Candidates \ {Loopback1}

\* C13: bindLoopbackIP generates at most maxAttempts candidates, every
\* rejected one uses up an attempt, it returns at the first alias-add that
\* succeeds and returns the error once maxAttempts candidates have failed.
C13_BoundedAttempts ==
  /\ tried <= maxAttempts
  /\ mpc = "bound" => tried = attempt + 1
  /\ mpc = "bindFailed" => (tried = maxAttempts /\ attempt = maxAttempts)

\* C13 witness: all maxAttempts candidates failed and the error is returned.
C13_Witness ==
  /\ mpc = "bindFailed"
  /\ tried = maxAttempts

\* C14: once allocation is exhausted the process has exited with status 1
\* and nothing was started: no Manager and no hint file, no ticker, no
\* listener, no watcher, no alias.
C14_StartupFatal ==
  hist.exhausted =>
    /\ mpc = "exited"
    /\ exitCode = 1
    /\ ~resolverManager
    /\ files = AllAbsent
    /\ managedDomains = {}
    /\ ~tickerOn
    /\ udp = "none"
    /\ tcp = "none"
    /\ ~watcherOn
    /\ bindIP = NoIP

\* C14 witness: the process exited after the allocation was exhausted.
C14_Witness ==
  /\ hist.exhausted
  /\ mpc = "exited"
  /\ exitCode = 1

\* C15: on every run in which an address was allocated, its release has
\* been attempted exactly once when the process has exited.
C15_ReleasedOnce ==
  (mpc = "exited" /\ bindIP # NoIP) => hist.relCmds = 1

\* C16: after a release that succeeded, releasing again runs no OS command.
C16_ReleaseIdempotent ==
  hist.relAfterOk = 0

\* C17: when the process has exited after Shutdown was called, the
\* listeners were shut down, the release was attempted, the exit status is
\* 0 and an error Shutdown returned came from a listener.
C17_ShutdownRunsAll ==
  (mpc = "exited" /\ hist.sdCalls >= 1) =>
    /\ udp = "stopped"
    /\ tcp = "stopped"
    /\ hist.relCmds >= 1
    /\ exitCode = 0
    /\ hist.sdErr => hist.srvErr

\* C18: once hint cleanup has begun the listeners are stopped, and no pass
\* of the ticker starts or writes a hint file.
C18_ShutdownOrdered ==
  hist.cleanupBegun =>
    /\ udp = "stopped"
    /\ tcp = "stopped"
    /\ ~hist.lateTick
    /\ ~hist.lateWrite

\* C19: at most one goroutine is inside a call of UpdateResolverFiles or
\* CleanupAll that uses the map of the Manager at any time.
C19_ManagerExclusive ==
  Cardinality(Touching) <= 1

\* C20: a pass of the ticker that ran alone and in which no write failed
\* leaves the hint file of every managed suffix with the expected content.
C20_DriftHealed ==
  ~hist.tickMissed

\* C25: on clean shutdown every suffix that is managed at that moment has
\* its hint removed by one CleanupAll pass, whichever pass created the
\* hint: when Shutdown is past its cleanup step and suffixes were managed,
\* CleanupAll has run
C25_ShutdownCleansManaged ==
  (mpc = "sdServers" /\ hist.sdCalls = 1) =>
    (hist.cleanupBegun \/ managedDomains = {})

\* a line of resolv.conf that names a nameserver
IsNameserver(line) ==
  TrimSpace(line) # <<>> /\ Head(TrimSpace(line)) = "nameserver"

\* the first nameserver line of the file is the managed line
ManagedFirst ==
  LET lines == SplitLines(resolvConf, 1, <<>>)
      ns == {i \in 1..Len(lines) : IsNameserver(lines[i])}
  IN /\ ns # {}
     /\ TrimSpace(lines[CHOOSE i \in ns : \A j \in ns : i <= j])
          = nameserverEntry(bindIP)

\* the lines of content other than the managed line, in their order
OtherLines(content) ==
  LET Other(line) == TrimSpace(line) # nameserverEntry(bindIP)
  IN SelectSeq(SplitLines(content, 1, <<>>), Other)

\* C21: on Linux, after every successful configuration or timer pass the
\* managed line "nameserver <bindIP>" is the first nameserver line of the
\* file, and the other lines are the lines the pass found, in their order
C21_ManagedLineFirst ==
  (lin.op \in {"configure", "tick"} /\ lin.ok) =>
    /\ ManagedFirst
    /\ OtherLines(resolvConf) = OtherLines(lin.before.file)

\* C22: on Linux, a clean shutdown after a successful configuration writes
\* back exactly the content the file had when it was read at startup,
\* whatever the timer passes and the other programs wrote in between
C22_RestoresOriginal ==
  (lin.op = "cleanup" /\ lin.wrote) =>
    /\ resolvConf = lin.start
    /\ originalResolvConf = [set |-> TRUE, content |-> lin.start]

C22_Witness ==
  /\ lin.op = "cleanup"
  /\ lin.wrote
  /\ lin.ticks >= 1
  /\ lin.edits >= 1
  /\ lin.before.file # lin.start
  /\ ~HasEntry(SplitLines(lin.start, 1, <<>>), bindIP)
  /\ resolvConf = lin.start

\* C23: on Linux, a timer pass that cannot read the file writes nothing
\* and changes neither resolverConfigured, the captured content nor
\* bindIP, and the ticker that runs the check again is still on
C23_ReadFailureAborts ==
  (lin.op = "tick" /\ ~lin.read) =>
    /\ ~lin.wrote
    /\ Snapshot = lin.before
    /\ tickerOn
    /\ resolverConfigured

C23_Witness ==
  /\ lin.op = "tick"
  /\ ~lin.read
  /\ lin.retry
  /\ ~HasEntry(SplitLines(resolvConf, 1, <<>>), bindIP)
  /\ Snapshot = lin.before

\* C24: for a query with one question the reply is an address answer with
\* the matched IP and TTL 300 when the type is A and the name matches a
\* record, and else a name error (NXDOMAIN) with no answer, for the names
\* that match no record and for every other query type
C24_ReplyShape ==
  (reply.made /\ Len(reply.question) = 1) =>
    LET q == reply.question[1]
        res == Match(records, regexCache, q.Name)
    IN IF q.Qtype = "A" /\ res.found
       THEN /\ Len(reply.answer) = 1
            /\ reply.answer[1].Rrtype = "A"
            /\ reply.answer[1].A = [addr |-> res.ip, valid |-> TRUE]
            /\ reply.answer[1].Ttl = 300
       ELSE /\ reply.rcode = "NXDOMAIN"
            /\ reply.answer = <<>>

\* the config has a selector that names one of its record sets, and every
\* record of every record set has a domain and an ip
WellFormed(c) ==
  /\ c.ActiveRecord # ""
  /\ DOMAIN c.Records # {}
  /\ c.ActiveRecord \in DOMAIN c.Records
  /\ \A n \in DOMAIN c.Records :
       /\ Len(c.Records[n]) >= 1
       /\ \A i \in 1..Len(c.Records[n]) :
            c.Records[n][i].Domain # <<>> /\ c.Records[n][i].IP # ""

\* C26: Validate returns nil exactly when the selector is not empty and
\* names a record set, there is a record set, no record set is empty and
\* every record of every record set has a domain and an ip
C26_ValidateExact ==
  /\ (wlast.op = "Load" /\ wlast.before \notin {NoFile, BadYaml}) =>
       (~wlast.err <=> WellFormed(Unmarshal(wlast.before)))
  /\ (wlast.op = "Write" /\ wlast.io) =>
       (~wlast.err <=> WellFormed(wlast.loaded))

C26_Witness ==
  /\ wlast.op = "Load"
  /\ wlast.err
  /\ wlast.before \notin {NoFile, BadYaml}
  /\ Unmarshal(wlast.before).ActiveRecord = "default"
  /\ \E r \in BadRecords :
       Unmarshal(wlast.before).Records =
         [n \in SetNames |-> IF n = "default" THEN <<DefaultRecord>>
                             ELSE <<r>>]

\* C27: on a config file that exists and when the file system lets the
\* write succeed, CreateRecordSet(name) for a name that is not in the config
\* succeeds and the file then holds a config with the new record set; for
\* a name that is in the config it fails and leaves the file unchanged
C27_CreateRecordSet ==
  (/\ wlast.op = "CreateRecordSet"
   /\ wlast.before # NoFile
   /\ wlast.loaded # NilConfig
   /\ wlast.io) =>
    IF wlast.name \in DOMAIN wlast.loaded.Records
    THEN wlast.err /\ cfgFile = wlast.before
    ELSE /\ ~wlast.err
         /\ IsValidFile(cfgFile)
         /\ wlast.name \in DOMAIN Unmarshal(cfgFile).Records

\* what DeleteRecordSet(name) does to the config it loaded
DeleteDone ==
  IF wlast.loaded.ActiveRecord = wlast.name THEN wlast.err
  ELSE IF wlast.name \in DOMAIN wlast.loaded.Records /\ wlast.io
  THEN /\ ~wlast.err
       /\ IsValidFile(cfgFile)
       /\ Unmarshal(cfgFile).ActiveRecord = wlast.loaded.ActiveRecord
       /\ Unmarshal(cfgFile).Records =
            [n \in (DOMAIN wlast.loaded.Records) \ {wlast.name} |->
               wlast.loaded.Records[n]]
  ELSE TRUE

\* C28 as stated: DeleteRecordSet(name) fails and leaves the config file
\* unchanged when name is the active record set; for another record set
\* of the config it removes that set and changes neither the selector nor
\* the other sets
C28_DeleteRecordSet_Stated ==
  (wlast.op = "DeleteRecordSet" /\ wlast.loaded # NilConfig) =>
    /\ DeleteDone
    /\ wlast.loaded.ActiveRecord = wlast.name => cfgFile = wlast.before

\* C28: the same, where a call that fails leaves the file unchanged when
\* there was a file, and leaves the default config that Load wrote when
\* there was none
C28_DeleteRecordSet ==
  (wlast.op = "DeleteRecordSet" /\ wlast.loaded # NilConfig) =>
    /\ DeleteDone
    /\ wlast.loaded.ActiveRecord = wlast.name =>
         cfgFile = IF wlast.before = NoFile THEN Marshal(defaultConfig)
                   ELSE wlast.before

C28_Witness ==
  /\ wlast.op = "DeleteRecordSet"
  /\ wlast.loaded # NilConfig
  /\ wlast.name # wlast.loaded.ActiveRecord
  /\ wlast.name \in DOMAIN wlast.loaded.Records
  /\ ~wlast.err
  /\ DOMAIN Unmarshal(cfgFile).Records = {wlast.loaded.ActiveRecord}

\* C29: AddRecord(set, record) that returns nil has put the record at the
\* end of the record set, which it created when the config had none of
\* that name, and has changed neither the selector, the records the set
\* had, nor another record set
C29_AddRecordAppends ==
  (wlast.op = "AddRecord" /\ ~wlast.err) =>
    LET old == wlast.loaded
        new == Unmarshal(cfgFile)
        had == IF wlast.name \in DOMAIN old.Records
               THEN old.Records[wlast.name] ELSE <<>>
    IN /\ IsValidFile(cfgFile)
       /\ new.ActiveRecord = old.ActiveRecord
       /\ DOMAIN new.Records = (DOMAIN old.Records) \cup {wlast.name}
       /\ new.Records[wlast.name] = had \o <<wlast.record>>
       /\ \A n \in (DOMAIN old.Records) \ {wlast.name} :
            new.Records[n] = old.Records[n]

C29_Witness ==
  /\ wlast.op = "AddRecord"
  /\ ~wlast.err
  /\ wlast.name \in DOMAIN wlast.loaded.Records
  /\ DOMAIN wlast.loaded.Records = SetNames
  /\ Len(Unmarshal(cfgFile).Records[wlast.name]) = 2
  /\ Unmarshal(cfgFile).Records[wlast.name][1] # wlast.record

\* the config file was valid before the first call of the behaviour
StartedValid ==
  IF wlast.count = 0 THEN IsValidFile(cfgFile) ELSE wlast.valid0

\* C30: after any sequence of calls of the Writer on a valid config file
\* the file holds a config that passes Validate, and a call that returns
\* an error leaves the content of the file unchanged
C30_FileStaysValid ==
  StartedValid =>
    /\ IsValidFile(cfgFile)
    /\ WellFormed(Unmarshal(cfgFile))
    /\ (wlast.count > 0 /\ wlast.err) => cfgFile = wlast.before

C30_Witness ==
  /\ StartedValid
  /\ wlast.count = 2
  /\ wlast.op = "RemoveRecord"
  /\ wlast.err
  /\ wlast.io
  /\ wlast.index = 0
  /\ wlast.name \in DOMAIN wlast.loaded.Records
  /\ Len(wlast.loaded.Records[wlast.name]) = 1
  /\ cfgFile = wlast.before

\* the pattern of the record starts with "^" and does not compile
BadPattern(rec) ==
  HasPrefix(rec.Domain, <<"^">>) /\ ~Compile(rec.Domain).ok

\* C33: a record whose "^" pattern does not compile has no compiled
\* expression and never matches by regex, it still matches the name equal
\* to its literal text, and Resolve returns what it returns on the list
\* without the records of that kind that do not match literally
C33_BadPatternIsLiteral ==
  call.made =>
    LET n == Normalize(call.q)
        Kept(rec) == ~BadPattern(rec) \/ Normalize(rec.Domain) = n
    IN /\ \A i \in 1..Len(records) :
            BadPattern(records[i]) => records[i].Domain \notin DOMAIN regexCache
       /\ call.res = Resolved(SelectSeq(records, Kept), call.q)

\* C33 witness: a pattern that does not compile stands before a regex that
\* matches the name, and Resolve returned the IP of the regex
C33_Witness ==
  /\ call.made
  /\ Len(records) = 2
  /\ BadPattern(records[1])
  /\ records[2].Domain = DomRegex
  /\ Normalize(records[1].Domain) # Normalize(call.q)
  /\ Normalize(records[2].Domain) # Normalize(call.q)
  /\ call.res = Found(records[2].IP)

\* C34: a pass removes the hint only of a suffix that was managed and is
\* not in the suffix set of the records of the pass, also when the write
\* of a suffix of the set failed in the pass
C34_RemovesOnlyAbsent ==
  pass.removed \subseteq (pass.man0 \ pass.suf)

\* C35: after a pass in which no OS operation failed, ManagedDomainSet is
\* the suffix set of the records of the pass and the hint files of the
\* suffixes the manager has handled exist for exactly that set, also when
\* the set is empty
C35_ManagedEqualsSuffixes ==
  (ppc = "returned" /\ ~perr /\ pass.failW = {} /\ pass.failR = {}) =>
    /\ managedDomains = pass.suf
    /\ {s \in pass.man0 \cup pass.suf : files[s] # "absent"} = pass.suf

\* C39: Update holds the writer lock only for the swap of the record
\* list: no pattern is compiled while Matcher.mu or Cache.mu is held
\* exclusively
C39_CompileOutsideLock ==
  (/\ wpc = "compile"
   /\ wi <= Len(records)
   /\ HasPrefix(records[wi].Domain, <<"^">>)) =>
    (~matcherMu.writer /\ ~cacheMu.writer)

\* the README's pattern ^[a-zA-Z0-9-]+\.myhost\.$
ReadmePattern ==
  PatternOf(<<"^">>,
            <<"[", "a", "-", "z", "A", "-", "Z", "0", "-", "9", "-", "]", "+",
              "\\", ".">>,
            <<"m", "y", "h", "o", "s", "t">>, <<"\\", ".", "$">>)

\* C32: extractSuffix returns the last non-empty label that is left when
\* the anchors, escapes, quantifiers, character classes, groups and
\* alternation syntax are stripped: of a pattern made of an anchor, a head
\* that ends at a separator, a label and a tail of separators and "$", it
\* returns the label; "myhost" for the README's pattern and "com" for
\* api.example.com
C32_LastLabel ==
  sfx.made =>
    \A a \in PatAnchors, h \in PatHeads, l \in PatLabels, t \in PatTails :
      sfx.pattern = PatternOf(a, h, l, t) => sfx.suffix = l

\* the hints and the map a pass over the records recs leaves when no OS
\* operation fails are those of the suffix set of recs
Converged(man, fs, dir, recs) ==
  LET suffixes == extractDomainSuffixes(recs)
      r == RunPass(man, fs, dir, suffixes, TRUE, {}, {})
  IN /\ ~r.err
     /\ r.managed = suffixes
     /\ {s \in SuffixUniverse : r.files[s] # "absent"} = suffixes

\* C36: the run is Configured as soon as a reconciliation pass has
\* succeeded, the startup pass or a reload pass, so that the ticks check
\* for drift: while the daemon runs with a managed suffix, which only a
\* pass that succeeded leaves, resolverConfigured is set
C36_ConfiguredAfterAnyPass ==
  (mpc = "running" /\ Inside = {} /\ managedDomains # {}) =>
    resolverConfigured

\* C37: when the pass of a tick that read the records before a reload has
\* overlapped the pass of the reload and both have returned, one more pass
\* of a tick without OS failure leaves ManagedDomainSet and the hint files
\* equal to the suffix set of the records that Update installed
C37_ConvergesAfterOverlap ==
  [][\A g \in {"monitor", "watcher"} :
       (/\ gpc[g] = "inCall"
        /\ raced[g]
        /\ gpc'[g] = "idle"
        /\ \A h \in Goroutines : gpc'[h] = "idle"
        /\ mpc' = "running"
        /\ extractDomainSuffixes(records') # {}) =>
         Converged(managedDomains', files', dirExists', records')]_vars

(***************************************************************************)
(* The watcher.                                                            *)
(***************************************************************************)
\* C31: after a detected change whose file does not parse or does not
\* validate, neither MatchTable.Update nor UpdateResolverFiles has run:
\* the records, the compiled patterns, the managed domains and the hint
\* files are what they were when the event arrived, and the watcher is
\* back in its loop (it stops only when Close was called).
C31_BadReloadChangesNothing ==
  whist.op = "failed" =>
    /\ WatchState = whist.before
    /\ committed = whist.before.records
    /\ wtc = "select" \/ (whist.closed /\ wtc = "stopped")

\* a file that does not validate was detected after a good reload, and
\* the watcher still waits for events, with one more in its queue
C31_Witness ==
  /\ whist.op = "failed"
  /\ whist.begun >= 1
  /\ cfgFile \in WatchBad \ {BadYaml}
  /\ records # <<>>
  /\ managedDomains # {}
  /\ wtc = "select"
  /\ events # <<>>

\* C38: the callbacks of two events never overlap, a new event is taken
\* only when no callback is in progress, and in every callback the table
\* holds the new records before the hints are reconciled.
C38_ReloadsSerialized ==
  /\ whist.open <= 1
  /\ whist.open = 1 <=> wtc \in {"update", "reconcile"}
  /\ whist.tableFirst
  /\ wtc = "reconcile" => (records = wnew /\ committed = wnew)

\* a callback is in progress, past Update, while the next event of the
\* file already waits
C38_Witness ==
  /\ wtc = "reconcile"
  /\ whist.begun = 2
  /\ events # <<>>
  /\ Head(events) = "write"
  /\ records = wnew

(***************************************************************************)
(* The locks.                                                              *)
(***************************************************************************)
\* the goroutines that hold the read lock of the Cache, of the Matcher
HoldCache ==
  {r \in Readers : rpc[r] \in {"matchRLock", "loop", "return",
                               "getMatcherRLock", "getReturn"}}

HoldMatcher == {r \in Readers : rpc[r] \in {"loop", "return", "getReturn"}}

\* C40: Cache.mu is held whenever Matcher.mu is held or waited for, both
\* are released when the calls have returned, Lookups wait for no other
\* reader (with no Update in progress every RLock returns at once), and
\* every Lookup, GetRecords, GetDomains and Update in progress returns.
C40_LocksLive ==
  /\ [](/\ cacheMu.readers = Cardinality(HoldCache)
        /\ matcherMu.readers = Cardinality(HoldMatcher)
        /\ HoldMatcher \subseteq HoldCache
        /\ (matcherMu.writer \/ matcherMu.waiting) => cacheMu.writer
        /\ cacheMu.writer <=>
             wpc \in {"matcherLock", "setRecords", "resetCache", "compile",
                      "unlock"}
        /\ wpc = "idle" => (CanRLock(cacheMu) /\ CanRLock(matcherMu)))
  /\ \A r \in Readers : (rpc[r] # "idle") ~> (rpc[r] = "idle")
  /\ (wpc # "idle") ~> (wpc = "idle")

\* a Lookup and a GetRecords hold both locks at once while an Update
\* that called Lock waits for them
C40_Witness ==
  /\ rpc["q1"] = "loop"
  /\ rpc["q2"] = "getReturn"
  /\ rop["q2"] = "GetRecords"
  /\ cacheMu.readers = 2
  /\ matcherMu.readers = 2
  /\ cacheMu.waiting
  /\ wpc = "cacheLock"
====
